---- MODULE Spec2Model ----
(***************************************************************************)
(* Model of the walky tree traversal engine (Walk / walk), its walker      *)
(* adapters, the path matcher layer and the operations that change or     *)
(* copy a tree, over bounded yaml.Node trees.                              *)
(*                                                                         *)
(* A tree is a heap: a sequence of node records indexed by node id; the    *)
(* root passed to the operations is node 1 and the nil pointer is 0.       *)
(***************************************************************************)
EXTENDS Integers, Sequences, FiniteSets, TLC

VARIABLES tree, res

vars == <<tree, res>>

\* ------------------------------------------------------------------------
\* Bounds of the model
\* ------------------------------------------------------------------------
MaxNodes == 5

\* nodes of the document in the models of the operations that change it
MaxHeapNodes == 4

\* ------------------------------------------------------------------------
\* Node model (yaml.Node: Kind, Value, Content)
\* ------------------------------------------------------------------------
DocumentNode == "Document"
SequenceNode == "Sequence"
MappingNode == "Mapping"
ScalarNode == "Scalar"
AliasNode == "Alias"

NilNode == 0

KeyValues == {"a", "b"}

\* the ids of a set of nodes in increasing order
RECURSIVE SortedSeq(_)
SortedSeq(S) ==
    IF S = {} THEN <<>>
    ELSE LET m == CHOOSE x \in S : \A y \in S : x <= y
         IN <<m>> \o SortedSeq(S \ {m})

\* ancestors-or-self of node i under the parent function par (root is 1)
RECURSIVE AncSelf(_, _)
AncSelf(par, i) == IF i = 1 THEN {1} ELSE {i} \cup AncSelf(par, par[i])

\* parent functions of the ordered trees with n nodes numbered in pre-order
Shapes(n) ==
    {par \in [2..n -> 1..n] :
        \A i \in 2..n : par[i] < i /\ par[i] \in AncSelf(par, i - 1)}

ChildSeq(n, par, i) == SortedSeq({j \in 2..n : par[j] = i})

\* position (1-based) of node j among its siblings
SibIndex(n, par, j) == Cardinality({k \in 2..n : par[k] = par[j] /\ k <= j})

IsKeySlot(n, par, kind, j) ==
    j > 1 /\ kind[par[j]] = MappingNode /\ SibIndex(n, par, j) % 2 = 1

\* kinds allowed by the node model: scalars and aliases are leaves, a
\* Document only occurs as the root and wraps at most one child, mapping
\* keys are scalars; a Mapping has an even number of children unless
\* malformed trees are asked for
KindsOK(n, par, kind, malformed) ==
    /\ malformed \/ \A i \in 1..n : kind[i] = MappingNode =>
                       Cardinality({j \in 2..n : par[j] = i}) % 2 = 0
    /\ \A i \in 2..n : kind[i] # DocumentNode
    /\ \A i \in 2..n : kind[par[i]] \in {DocumentNode, SequenceNode, MappingNode}
    /\ kind[1] = DocumentNode => Cardinality({j \in 2..n : par[j] = 1}) <= 1
    /\ \A j \in 2..n : IsKeySlot(n, par, kind, j) => kind[j] = ScalarNode

MkTree(n, par, kind, val) ==
    [i \in 1..n |->
        [Kind |-> kind[i],
         Value |-> IF kind[i] = ScalarNode THEN val[i] ELSE "",
         Content |-> ChildSeq(n, par, i)]]

Kinds == {DocumentNode, SequenceNode, MappingNode, ScalarNode}

\* the trees of at most max nodes whose mapping keys have a Value of
\* keyValues; the other scalars have the Value "x"
TreesUpTo(max, keyValues, malformed) ==
    UNION {
      UNION {
        UNION {
          {MkTree(n, par, kind, val) :
             val \in {v \in [1..n -> keyValues \cup {"x"}] :
                        \A j \in 1..n :
                          IF IsKeySlot(n, par, kind, j)
                          THEN v[j] \in keyValues ELSE v[j] = "x"}}
          : kind \in {k \in [1..n -> Kinds] : KindsOK(n, par, k, malformed)}}
        : par \in Shapes(n)}
      : n \in 1..max}

TreesOver(keyValues, malformed) == TreesUpTo(MaxNodes, keyValues, malformed)

Trees == TreesOver(KeyValues, FALSE)

\* the visit functions below never read a Value: one key Value is enough
ShapeTrees == TreesOver({"a"}, FALSE)

\* ------------------------------------------------------------------------
\* Whole nodes (yaml.Node with Tag, Alias, Anchor and the document data)
\* ------------------------------------------------------------------------
\* the Tag the parser and the New...Node constructors give a node
TagOf(kind) ==
    CASE kind = MappingNode -> "!!map"
      [] kind = SequenceNode -> "!!seq"
      [] kind = ScalarNode -> "!!str"
      [] OTHER -> ""

\* a node with all the fields the operations read or write; comment stands
\* in the three comment fields and line in the Line field
Node(kind, tag, value, content, alias, anchor, comment, line) ==
    [Kind |-> kind, Tag |-> tag, Value |-> value, Content |-> content,
     Alias |-> alias, Anchor |-> anchor,
     HeadComment |-> comment, LineComment |-> comment, FootComment |-> comment,
     Line |-> line, Column |-> 1, Style |-> 0]

\* the nodes of a parsed tree: every node has its own line
Full(t, comment) ==
    [i \in DOMAIN t |->
        Node(t[i].Kind, TagOf(t[i].Kind), t[i].Value, t[i].Content,
             NilNode, "", comment, i)]

RECURSIVE Ancestors(_, _)
\* proper ancestors of n through Content
Ancestors(t, n) ==
    LET ps == {p \in DOMAIN t : \E k \in DOMAIN t[p].Content : t[p].Content[k] = n}
    IN ps \cup UNION {Ancestors(t, p) : p \in ps}

\* t with the scalar a turned into an alias of the anchored node target
WithAlias(t, a, target) ==
    [t EXCEPT ![a] = [@ EXCEPT !.Kind = AliasNode, !.Tag = "", !.Value = "x",
                               !.Alias = target],
              ![target] = [@ EXCEPT !.Anchor = "x"]]

\* a scalar that is not a mapping key can be an alias of a node that comes
\* earlier in the document and does not contain it
AliasChoices(t) ==
    {<<a, target>> \in (DOMAIN t) \X (DOMAIN t) :
        /\ t[a].Kind = ScalarNode
        /\ t[a].Value = "x"
        /\ target < a
        /\ t[target].Kind # DocumentNode
        /\ target \notin Ancestors(t, a)}

\* the documents: parsed trees with at most one alias
Documents ==
    UNION {{Full(t, "doc")} \cup
           {WithAlias(Full(t, "doc"), c[1], c[2]) : c \in AliasChoices(Full(t, "doc"))}
           : t \in TreesUpTo(MaxHeapNodes, KeyValues, FALSE)}

\* a scalar that is not a mapping key can also be made an alias by the
\* caller, of any node that does not contain it, before or after it
AliasTargets(t, a) ==
    {target \in DOMAIN t :
        /\ target # a
        /\ t[target].Kind \notin {DocumentNode, AliasNode}
        /\ target \notin Ancestors(t, a)}

\* trees in which two aliases point to one node
SharingDocuments ==
    UNION {{WithAlias(WithAlias(Full(t, "doc"), a, target), b, target) :
               target \in AliasTargets(Full(t, "doc"), a) \cap
                          AliasTargets(Full(t, "doc"), b)}
           : <<t, a, b>> \in
                {<<t, a, b>> \in TreesUpTo(MaxHeapNodes, KeyValues, FALSE)
                                  \X (1..MaxHeapNodes) \X (1..MaxHeapNodes) :
                    /\ a \in DOMAIN t /\ b \in DOMAIN t /\ a < b
                    /\ t[a].Kind = ScalarNode /\ t[a].Value = "x"
                    /\ t[b].Kind = ScalarNode /\ t[b].Value = "x"}}

\* nodes made by the caller (ToNode, New...Node), not part of a document:
\* each is a small tree whose root is its node 1
NewScalar(value, tag, comment) ==
    <<Node(ScalarNode, tag, value, <<>>, NilNode, "", comment, 0)>>

NewSequence(comment) ==
    <<Node(SequenceNode, "!!seq", "", <<>>, NilNode, "", comment, 0)>>

NewSequenceOf(value, comment) ==
    <<Node(SequenceNode, "!!seq", "", <<2>>, NilNode, "", comment, 0),
      Node(ScalarNode, "!!str", value, <<>>, NilNode, "", comment, 0)>>

NewMappingOf(key, value, comment) ==
    <<Node(MappingNode, "!!map", "", <<2, 3>>, NilNode, "y", comment, 0),
      Node(ScalarNode, "!!str", key, <<>>, NilNode, "", comment, 0),
      Node(ScalarNode, "!!str", value, <<>>, NilNode, "", comment, 0)>>

NewKeys ==
    {NewScalar("a", "!!str", "key"), NewScalar("b", "!!str", "key"),
     NewScalar("x", "!!str", "key"), NewScalar("x", "!!int", "key"),
     NewSequence("key")}

NewValues ==
    {NewScalar("y", "!!str", "val"), NewSequenceOf("y", "val"),
     NewMappingOf("a", "y", "val")}

\* a tree moved to the node ids after by
Shift(t, by) ==
    [i \in DOMAIN t |->
        [t[i] EXCEPT !.Content = [k \in DOMAIN t[i].Content |-> t[i].Content[k] + by],
                     !.Alias = IF t[i].Alias = NilNode THEN NilNode
                               ELSE t[i].Alias + by]]

\* a document followed by a new key node and a new value node
Heaps ==
    {doc \o Shift(key, Len(doc)) \o Shift(val, Len(doc) + Len(key)) :
        doc \in Documents, key \in NewKeys, val \in NewValues}

\* the nodes of heap h that carry the comment c, and the first of them
Marked(h, c) == {n \in DOMAIN h : h[n].LineComment = c}

FirstMarked(h, c) == CHOOSE n \in Marked(h, c) : \A k \in Marked(h, c) : n <= k

\* ------------------------------------------------------------------------
\* Walk statuses, errors, options
\* ------------------------------------------------------------------------
WalkExit == "Exit"
WalkDepthFirst == "Depth"
WalkBreadthFirst == "Breadth"
WalkPrune == "Prune"

\* error values: nil, an error value created by the callback at a node, or
\* a runtime panic (nil dereference, index out of range) unwinding the stack
Nil == [kind |-> "nil", at |-> 0]
ErrAt(n) == [kind |-> "error", at |-> n]
Panic == [kind |-> "panic", at |-> 0]

Unset == "unset"

\* opts := &WalkOptions{MissStatus: WalkDepthFirst, maxDepth: -1}
DefaultOpts == [MissStatus |-> WalkDepthFirst, matchStatus |-> Unset, maxDepth |-> -1]

MatchStatusIgnored(opts) == opts.MissStatus

MatchStatus(opts) ==
    IF opts.matchStatus # Unset THEN opts.matchStatus ELSE opts.MissStatus

WithBreadthFirst(opts) == [opts EXCEPT !.MissStatus = WalkBreadthFirst]

WithFirstOnly(opts) == [opts EXCEPT !.matchStatus = WalkExit]

WithMaxDepth(opts, max) == [opts EXCEPT !.maxDepth = max]

unwrapDocument(t, node) ==
    IF t[node].Kind = DocumentNode
    THEN IF Len(t[node].Content) < 1 THEN node ELSE t[node].Content[1]
    ELSE node

\* the observable record of a run: every call of the visit function (as the
\* trace hook sees it) and every call of the final callback
\* what a run has done so far: the trace of the visits, the nodes handed to
\* the final callback, and the tree as the callbacks have left it
StartSt(t) == [visits |-> <<>>, calls |-> <<>>, runs |-> <<>>, t |-> t]

\* a deferred continuation: the closure over (subNode, subParent, depth+1)
NextFunc(subNode, subParent, depth) ==
    [node |-> subNode, parent |-> subParent, depth |-> depth]

RECURSIVE ApplyFn(_, _, _, _)
RECURSIVE Match(_, _, _, _, _)
RECURSIVE Equal(_, _, _)
RECURSIVE Visit(_, _, _, _, _, _, _)
RECURSIVE walkFrom(_, _, _, _, _, _, _, _, _)
RECURSIVE walkVisited(_, _, _, _, _, _, _, _, _)
RECURSIVE walkDescended(_, _, _, _, _, _, _, _, _)
RECURSIVE walk(_, _, _, _, _, _, _)
RECURSIVE RunLater(_, _, _, _, _, _)
RECURSIVE RunLaterNext(_, _, _, _, _, _)
RECURSIVE Walk(_, _, _, _, _)

\* ------------------------------------------------------------------------
\* Callbacks (NodeFunc)
\* ------------------------------------------------------------------------
\* collecting callback of the tests: records the node, returns an error on
\* the nodes of errs
Collect(errs) == [type |-> "collect", errs |-> errs]

\* the closure WalkPathMatchers builds for matchers[i]:
\*   func(node) error { return matchers[i].Match(node, prevFn) }
MatchFn(matchers, i, final) ==
    [type |-> "match", matchers |-> matchers, i |-> i, final |-> final]

\* the continuation handed to matchers[i]: the closure of matchers[i+1], or
\* the final callback
PrevFn(fn) ==
    IF fn.i = Len(fn.matchers) THEN fn.final
    ELSE MatchFn(fn.matchers, fn.i + 1, fn.final)

\* the callback of AssignMapNode:
\*   func(node) error { found = true; AssignNode(node, valNode); return nil }
\* (found is read off the calls)
AssignFn(valNode) == [type |-> "assign", valNode |-> valNode]

AssignNodeKeepsTag(t, destNode, srcNode) ==
    [t EXCEPT ![destNode] =
        [@ EXCEPT !.Alias = t[srcNode].Alias, !.Anchor = t[srcNode].Anchor,
                  !.Content = t[srcNode].Content, !.Kind = t[srcNode].Kind,
                  !.Value = t[srcNode].Value]]

\* the tree after AssignNode(destNode, srcNode)
AssignNode(t, destNode, srcNode) ==
    [t EXCEPT ![destNode] =
        [@ EXCEPT !.Alias = t[srcNode].Alias, !.Anchor = t[srcNode].Anchor,
                  !.Content = t[srcNode].Content, !.Kind = t[srcNode].Kind,
                  !.Tag = t[srcNode].Tag, !.Value = t[srcNode].Value]]

ApplyFn(t, fn, node, st) ==
    CASE fn.type = "collect" ->
           [err |-> IF node \in fn.errs THEN ErrAt(node) ELSE Nil,
            st |-> [st EXCEPT !.calls = Append(@, node)]]
      [] fn.type = "assign" ->
           [err |-> Nil,
            st |-> [st EXCEPT !.calls = Append(@, node),
                              !.t = AssignNode(@, node, fn.valNode)]]
      [] fn.type = "match" ->
           Match(t, fn.matchers[fn.i], node, PrevFn(fn), st)

\* ------------------------------------------------------------------------
\* Visit functions (WalkFunc)
\* ------------------------------------------------------------------------
\* a visit function given by the outcome it returns at each node
Visitor(vf) == [type |-> "visitor", vf |-> vf]

OutErr == "Err"

VisitorCall(t, f, current, st) ==
    IF f.vf[current] = OutErr
    THEN [ws |-> WalkExit, err |-> ErrAt(current), st |-> st]
    ELSE [ws |-> f.vf[current], err |-> Nil, st |-> st]

\* `return opts.MissStatus, nil`
Miss(opts, st) == [ws |-> opts.MissStatus, err |-> Nil, st |-> st]

\* `err := f(node); return opts.MatchStatus(), err`, r being what f did
Matched(opts, r) == [ws |-> MatchStatus(opts), err |-> r.err, st |-> r.st]

ScalarValuesWalker(fn) == [type |-> "ScalarValues", fn |-> fn]

\* the test that makes ScalarValuesWalker return MissStatus
ScalarValuesMiss(t, current, parent) ==
    t[current].Kind # ScalarNode \/ t[parent].Kind = MappingNode

ScalarValuesCall(t, f, current, parent, pos, opts, st) ==
    IF t[current].Kind = ScalarNode /\ parent = NilNode
    THEN \* parent.Kind on a nil parent
         [ws |-> WalkExit, err |-> Panic, st |-> st]
    ELSE IF ScalarValuesMiss(t, current, parent)
    THEN Miss(opts, st)
    ELSE Matched(opts, ApplyFn(t, f.fn, current, st))

PairValueAsKey(t, parent, pos) == t[parent].Content[pos + 1]

\* parent.Content[pos+1]: the value of the pair whose key is at pos
PairValue(t, parent, pos) == t[parent].Content[pos + 2]

KeyStringWalker(key, fn) == [type |-> "KeyString", key |-> key, fn |-> fn]

KeyStringCall(t, f, current, parent, pos, opts, st) ==
    IF parent = NilNode \/ t[parent].Kind # MappingNode
    THEN Miss(opts, st)
    ELSE IF t[current].Value # f.key
    THEN Miss(opts, st)
    ELSE IF pos + 2 > Len(t[parent].Content)
    THEN \* parent.Content[pos+1]: index out of range
         [ws |-> WalkExit, err |-> Panic, st |-> st]
    ELSE Matched(opts, ApplyFn(t, f.fn, PairValue(t, parent, pos), st))

IndexWalker(ix, fn) == [type |-> "Index", ix |-> ix, fn |-> fn]

IndexCall(t, f, current, parent, pos, opts, st) ==
    IF parent = NilNode \/ t[parent].Kind # SequenceNode
    THEN Miss(opts, st)
    ELSE IF f.ix > pos
    THEN [ws |-> WalkBreadthFirst, err |-> Nil, st |-> st]
    ELSE IF f.ix < pos
    THEN [ws |-> WalkPrune, err |-> Nil, st |-> st]
    ELSE Matched(opts, ApplyFn(t, f.fn, current, st))

\* `err := fn(...); return opts.MissStatus, err`, r being what fn did
Missed(opts, r) == [ws |-> opts.MissStatus, err |-> r.err, st |-> r.st]

\* the visit function of anyPathMatcher.Match
AnyWalker(fn) == [type |-> "Any", fn |-> fn]

AnyCall(t, f, current, parent, pos, opts, st) ==
    IF parent # NilNode /\ t[parent].Kind = MappingNode
    THEN IF pos + 2 > Len(t[parent].Content)
         THEN \* parent.Content[pos+1]: index out of range
              [ws |-> WalkExit, err |-> Panic, st |-> st]
         ELSE Missed(opts, ApplyFn(t, f.fn, PairValue(t, parent, pos), st))
    ELSE Missed(opts, ApplyFn(t, f.fn, current, st))

\* the visit function of nodePathMatcher.Match, pm being the node searched
NodeWalker(pm, fn) == [type |-> "Node", pm |-> pm, fn |-> fn]

NodeCall(t, f, current, parent, pos, opts, st) ==
    IF ~Equal(t, f.pm, current)
    THEN Miss(opts, st)
    ELSE Matched(opts, ApplyFn(t, f.fn, current, st))

\* the trace hook: the arguments and results of a call of the visit
\* function, and how many callback calls have been made by then
Traced(current, parent, pos, depth, r) ==
    [ws |-> r.ws, err |-> r.err,
     st |-> [r.st EXCEPT !.visits =
                Append(@, [cur |-> current, parent |-> parent, pos |-> pos,
                           depth |-> depth, ws |-> r.ws, err |-> r.err,
                           calls |-> Len(r.st.calls)])]]

\* f(current, parent, position, opts) followed by the trace hook
Visit(t, f, current, parent, pos, depth, ost) ==
    Traced(current, parent, pos, depth,
           CASE f.type = "visitor" ->
                  VisitorCall(t, f, current, ost.st)
             [] f.type = "ScalarValues" ->
                  ScalarValuesCall(t, f, current, parent, pos, ost.opts, ost.st)
             [] f.type = "KeyString" ->
                  KeyStringCall(t, f, current, parent, pos, ost.opts, ost.st)
             [] f.type = "Index" ->
                  IndexCall(t, f, current, parent, pos, ost.opts, ost.st)
             [] f.type = "Any" ->
                  AnyCall(t, f, current, parent, pos, ost.opts, ost.st)
             [] f.type = "Node" ->
                  NodeCall(t, f, current, parent, pos, ost.opts, ost.st))

\* ------------------------------------------------------------------------
\* walk: one level of the traversal (src/walk.go walk)
\* ------------------------------------------------------------------------
SwitchBreadthAsDepth(ws) == IF ws = WalkBreadthFirst THEN WalkDepthFirst ELSE ws

\* the case that `switch ws` selects
SwitchCase(ws) == ws

MaxDepthOffByOne(opts, depth) == opts.maxDepth >= 0 /\ depth > opts.maxDepth + 1

MaxDepthExceeded(opts, depth) == opts.maxDepth >= 0 /\ depth > opts.maxDepth

ExitAsDepthFirst(st) ==
    [ws |-> WalkDepthFirst, later |-> <<>>, err |-> Nil, st |-> st]

\* result of walk when the visit of a child returned WalkExit
ExitResult(st) ==
    [ws |-> WalkExit, later |-> <<>>, err |-> Nil, st |-> st]

NextIndexByOne(isMap, i) == i + 1

\* the index of the next child to visit: a Mapping is visited pair by pair
NextIndex(isMap, i) == IF isMap THEN i + 2 ELSE i + 1

PruneAsExit(walkLater, st) ==
    [ws |-> WalkExit, later |-> <<>>, err |-> Nil, st |-> st]

\* result of walk when the visit of a child returned WalkPrune
PruneResult(walkLater, st) ==
    [ws |-> WalkDepthFirst, later |-> walkLater, err |-> Nil, st |-> st]

ErrResultDropped(ws, err, st) ==
    [ws |-> WalkDepthFirst, later |-> <<>>, err |-> Nil, st |-> st]

\* `return ws, nil, err`
ErrResult(ws, err, st) == [ws |-> ws, later |-> <<>>, err |-> err, st |-> st]

IsMap(t, node) == t[node].Kind = MappingNode

\* subNode and subParent: for a Mapping the value of the pair, whose parent
\* is the key
SubNode(t, node, i) ==
    IF IsMap(t, node) THEN t[node].Content[i + 2] ELSE t[node].Content[i + 1]

SubParent(t, node, parent, i) ==
    IF IsMap(t, node) THEN t[node].Content[i + 1] ELSE parent

\* the loop `for i := 0; i < len(node.Content); i++` from index i (0-based)
walkFrom(t, node, parent, f, depth, opts, i, walkLater, st) ==
    IF i >= Len(t[node].Content)
    THEN [ws |-> WalkDepthFirst, later |-> walkLater, err |-> Nil, st |-> st]
    ELSE walkVisited(t, node, parent, f, depth, opts, i, walkLater,
                     Visit(t, f, t[node].Content[i + 1], node, i, depth,
                           [opts |-> opts, st |-> st]))

\* the body of the loop after the visit v of child i
walkVisited(t, node, parent, f, depth, opts, i, walkLater, v) ==
    IF v.err # Nil
    THEN ErrResult(v.ws, v.err, v.st)
    ELSE IF IsMap(v.st.t, node) /\ i + 1 >= Len(v.st.t[node].Content)
    THEN \* node.Content[i+1]: index out of range
         ErrResult(v.ws, Panic, v.st)
    ELSE CASE SwitchCase(v.ws) = WalkExit -> ExitResult(v.st)
           [] SwitchCase(v.ws) = WalkDepthFirst ->
                walkDescended(v.st.t, node, parent, f, depth, opts, i, walkLater,
                              walk(v.st.t, SubNode(v.st.t, node, i), SubParent(v.st.t, node, parent, i),
                                   f, depth + 1, opts, v.st))
           [] SwitchCase(v.ws) = WalkBreadthFirst ->
                walkFrom(v.st.t, node, parent, f, depth, opts,
                         NextIndex(IsMap(v.st.t, node), i),
                         Append(walkLater,
                                NextFunc(SubNode(v.st.t, node, i),
                                         SubParent(v.st.t, node, parent, i), depth + 1)),
                         v.st)
           [] SwitchCase(v.ws) = WalkPrune -> PruneResult(walkLater, v.st)
           [] OTHER ->
                walkFrom(v.st.t, node, parent, f, depth, opts,
                         NextIndex(IsMap(v.st.t, node), i), walkLater, v.st)

\* the depth-first case after the recursive walk r of child i
walkDescended(t, node, parent, f, depth, opts, i, walkLater, r) ==
    IF r.err # Nil
    THEN ErrResult(r.ws, r.err, r.st)
    ELSE IF r.ws = WalkExit
    THEN ExitResult(r.st)
    ELSE walkFrom(r.st.t, node, parent, f, depth, opts,
                  NextIndex(IsMap(r.st.t, node), i), walkLater \o r.later, r.st)

walk(t, node, parent, f, depth, opts, st) ==
    IF MaxDepthExceeded(opts, depth)
    THEN [ws |-> WalkPrune, later |-> <<>>, err |-> Nil, st |-> st]
    ELSE walkFrom(t, node, parent, f, depth, opts, 0, <<>>, st)

\* ------------------------------------------------------------------------
\* Walk (src/walk.go Walk)
\* ------------------------------------------------------------------------
\* `if err != nil { return nil }` after walk and after a continuation: the
\* error is dropped; a panic is not an error value and keeps unwinding
WalkErrResult(err) == IF err = Panic THEN Panic ELSE Nil

AppendMoreDropped(later, more) == later

\* later = append(later, more...)
AppendMore(later, more) == later \o more

\* the loop `for i := 0; i < len(later); i++` from index i (1-based here)
RunLater(t, later, i, f, opts, st) ==
    IF i > Len(later)
    THEN [err |-> Nil, st |-> st]
    ELSE RunLaterNext(t, later, i, f, opts,
                      walk(t, later[i].node, later[i].parent, f, later[i].depth, opts,
                           [st EXCEPT !.runs = Append(@, later[i].node)]))

\* the body of the loop after the continuation later[i] returned r
RunLaterNext(t, later, i, f, opts, r) ==
    IF r.err # Nil
    THEN [err |-> WalkErrResult(r.err), st |-> r.st]
    ELSE IF r.ws = WalkExit
    THEN [err |-> Nil, st |-> r.st]
    ELSE IF r.ws = WalkPrune
    THEN RunLater(r.st.t, later, i + 1, f, opts, r.st)
    ELSE RunLater(r.st.t, AppendMore(later, r.later), i + 1, f, opts, r.st)

\* Walk after walk(node, nil, f, 0, opts) returned r
WalkWalked(t, f, opts, r) ==
    IF r.err # Nil
    THEN [err |-> WalkErrResult(r.err), st |-> r.st]
    ELSE IF r.ws \in {WalkExit, WalkPrune}
    THEN [err |-> Nil, st |-> r.st]
    ELSE RunLater(r.st.t, r.later, 1, f, opts, r.st)

\* Walk after the visit v of the root node
WalkVisited(t, node, f, opts, v) ==
    IF v.err # Nil
    THEN [err |-> v.err, st |-> v.st]
    ELSE IF v.ws \in {WalkExit, WalkPrune}
    THEN [err |-> Nil, st |-> v.st]
    ELSE WalkWalked(v.st.t, f, opts, walk(v.st.t, node, NilNode, f, 0, opts, v.st))

Walk(t, root, f, opts, st) ==
    WalkVisited(t, unwrapDocument(t, root), f, opts,
                Visit(t, f, unwrapDocument(t, root), NilNode, -1, 0,
                      [opts |-> opts, st |-> st]))

\* ------------------------------------------------------------------------
\* Path matchers (src/walk.go PathMatcher, WalkPathMatchers, WalkPath)
\* ------------------------------------------------------------------------
\* a matcher is its variant and that variant's field: the key string, the
\* index, the node searched or the walk options of the wildcard
KeyMatcher(key) ==
    [type |-> "key", key |-> key, ix |-> 0, n |-> NilNode, walkOpts |-> DefaultOpts]

IndexMatcher(i) ==
    [type |-> "index", key |-> "", ix |-> i, n |-> NilNode, walkOpts |-> DefaultOpts]

NodeMatcher(n) ==
    [type |-> "node", key |-> "", ix |-> 0, n |-> n, walkOpts |-> DefaultOpts]

\* AnyMatcher(walkOpts...), walkOpts being the options the WalkOpts produce
AnyMatcher(walkOpts) ==
    [type |-> "any", key |-> "", ix |-> 0, n |-> NilNode, walkOpts |-> walkOpts]

MatcherOptsUnbounded == DefaultOpts

\* the key and index matchers walk with WithMaxDepth(0)
MatcherOpts == WithMaxDepth(DefaultOpts, 0)

keyPathMatcher(t, m, node, fn, st) ==
    IF t[node].Kind # MappingNode
    THEN [err |-> Nil, st |-> st]
    ELSE Walk(t, node, KeyStringWalker(m.key, fn), MatcherOpts, st)

indexPathMatcherAnyKind(t, m, node, fn, st) ==
    Walk(t, node, IndexWalker(m.ix, fn), MatcherOpts, st)

indexPathMatcher(t, m, node, fn, st) ==
    IF t[node].Kind # SequenceNode
    THEN [err |-> Nil, st |-> st]
    ELSE Walk(t, node, IndexWalker(m.ix, fn), MatcherOpts, st)

nodePathMatcher(t, m, node, fn, st) ==
    Walk(t, node, NodeWalker(m.n, fn), DefaultOpts, st)

anyPathMatcherChildrenOnly(t, m, node, fn, st) ==
    Walk(t, node, AnyWalker(fn), WithMaxDepth(m.walkOpts, 0), st)

anyPathMatcher(t, m, node, fn, st) ==
    Walk(t, node, AnyWalker(fn), m.walkOpts, st)

Match(t, m, node, fn, st) ==
    CASE m.type = "key" -> keyPathMatcher(t, m, node, fn, st)
      [] m.type = "index" -> indexPathMatcher(t, m, node, fn, st)
      [] m.type = "node" -> nodePathMatcher(t, m, node, fn, st)
      [] m.type = "any" -> anyPathMatcher(t, m, node, fn, st)

WalkPathMatchers(t, root, fn, matchers, st) ==
    LET matchFn == IF Len(matchers) = 0 THEN fn ELSE MatchFn(matchers, 1, fn)
    IN ApplyFn(t, matchFn, unwrapDocument(t, root), st)

\* path segments carry their Go type: a string s or a number n
StringSeg(v) == [type |-> "string", s |-> v, n |-> 0]

IntSeg(v) == [type |-> "int", s |-> "", n |-> v]

\* a *yaml.Node segment: n is the node
NodeSeg(n) == [type |-> "node", s |-> "", n |-> n]

FloatSeg(v) == [type |-> "float64", s |-> "", n |-> v]

BadSegmentUntyped(p) == [kind |-> "Unable to make PathMatcher", at |-> p.n]

\* fmt.Errorf("Unable to make PathMatcher from type %T (%v)", p, p)
BadSegment(p) == [kind |-> "Unable to make PathMatcher from type " \o p.type, at |-> p.n]

SegmentOK(p) == p.type \in {"string", "int", "node"}

WalkPath(t, root, fn, path, st) ==
    IF \E k \in DOMAIN path : ~SegmentOK(path[k])
    THEN LET bad == CHOOSE k \in DOMAIN path :
                       /\ ~SegmentOK(path[k])
                       /\ \A j \in 1..(k - 1) : SegmentOK(path[j])
         IN [err |-> BadSegment(path[bad]), st |-> st]
    ELSE LET matchers == [k \in DOMAIN path |->
                            CASE path[k].type = "string" -> KeyMatcher(path[k].s)
                              [] path[k].type = "int" -> IndexMatcher(path[k].n)
                              [] path[k].type = "node" -> NodeMatcher(path[k].n)]
         IN WalkPathMatchers(t, root, fn, matchers, st)

\* ------------------------------------------------------------------------
\* Structural equality (src/utils.go Indirect, sortableNodeMap, Equal)
\* ------------------------------------------------------------------------
\* the strings of the model in Go's (bytewise) string order
Strings == <<"", "!!int", "!!map", "!!merge", "!!seq", "!!str", "<<", "a", "b", "x", "y">>

StrLess(a, b) ==
    (CHOOSE i \in DOMAIN Strings : Strings[i] = a)
        < (CHOOSE i \in DOMAIN Strings : Strings[i] = b)

\* the integer value of a yaml.Kind (1 << iota)
KindOrd(kind) ==
    CASE kind = DocumentNode -> 1
      [] kind = SequenceNode -> 2
      [] kind = MappingNode -> 4
      [] kind = ScalarNode -> 8
      [] kind = AliasNode -> 16

RECURSIVE Indirect(_, _)
Indirect(t, node) ==
    IF t[node].Kind = AliasNode THEN Indirect(t, t[node].Alias) ELSE node

\* sortableNodeMap.Less on the key nodes x and y
Less(t, x, y) ==
    IF t[x].Kind # t[y].Kind THEN KindOrd(t[x].Kind) < KindOrd(t[y].Kind)
    ELSE IF t[x].Tag # t[y].Tag THEN StrLess(t[x].Tag, t[y].Tag)
    ELSE IF Len(t[x].Content) # Len(t[y].Content)
    THEN Len(t[x].Content) < Len(t[y].Content)
    ELSE StrLess(t[x].Value, t[y].Value)

\* the inner loop of the insertion sort that sort.Sort runs on short
\* slices: the pair at position j moves left while it is Less than the pair
\* before it (sm holds the pairs as <<key, value>>)
RECURSIVE SiftLeft(_, _, _)
SiftLeft(t, sm, j) ==
    IF j > 1 /\ Less(t, sm[j][1], sm[j - 1][1])
    THEN SiftLeft(t, SubSeq(sm, 1, j - 2) \o <<sm[j], sm[j - 1]>>
                         \o SubSeq(sm, j + 1, Len(sm)), j - 1)
    ELSE sm

RECURSIVE InsertionSort(_, _, _)
InsertionSort(t, sm, i) ==
    IF i > Len(sm) THEN sm ELSE InsertionSort(t, SiftLeft(t, sm, i), i + 1)

\* the pairs of a Content slice; sortableNodeMap.Len is len/2
RECURSIVE Pairs(_)
Pairs(content) ==
    IF Len(content) < 2 THEN <<>>
    ELSE <<SubSeq(content, 1, 2)>> \o Pairs(SubSeq(content, 3, Len(content)))

RECURSIVE Flatten(_)
Flatten(sm) == IF sm = <<>> THEN <<>> ELSE sm[1] \o Flatten(Tail(sm))

\* sort.Sort(sortableNodeMap(content)) on a copy of content; an odd last
\* element is outside the pairs and stays in place
SortedContent(t, content) ==
    Flatten(InsertionSort(t, Pairs(content), 2))
        \o SubSeq(content, 2 * (Len(content) \div 2) + 1, Len(content))

\* Equal after both nodes went through Indirect
EqualIndirect(t, a, b) ==
    /\ t[a].Kind = t[b].Kind
    /\ t[a].Tag = t[b].Tag
    /\ t[a].Value = t[b].Value
    /\ Len(t[a].Content) = Len(t[b].Content)
    /\ IF t[a].Kind = MappingNode
       THEN \A i \in DOMAIN t[a].Content :
               Equal(t, SortedContent(t, t[a].Content)[i],
                        SortedContent(t, t[b].Content)[i])
       ELSE \A i \in DOMAIN t[a].Content :
               Equal(t, t[a].Content[i], t[b].Content[i])

Equal(t, a, b) ==
    IF a = NilNode \/ b = NilNode
    THEN FALSE
    ELSE EqualIndirect(t, Indirect(t, a), Indirect(t, b))

\* ------------------------------------------------------------------------
\* Mutation primitives (src/utils.go)
\* ------------------------------------------------------------------------
\* fmt.Errorf("<op> called on invalid type: %s", node.Tag)
InvalidType(op, tag) == [kind |-> op \o " called on invalid type: " \o tag, at |-> 0]

RECURSIVE InsertAtFrom(_, _, _, _)
\* the loop of AssignMapNode from index i (0-based): the index of the first
\* key whose Value is greater than the Value of keyNode, else the length
InsertAtFrom(t, mapNode, keyNode, i) ==
    IF i >= Len(t[mapNode].Content) THEN Len(t[mapNode].Content)
    ELSE IF StrLess(t[keyNode].Value, t[t[mapNode].Content[i + 1]].Value) THEN i
    ELSE InsertAtFrom(t, mapNode, keyNode, i + 2)

InsertAt(t, mapNode, keyNode) ==
    IF t[keyNode].Kind = ScalarNode
    THEN InsertAtFrom(t, mapNode, keyNode, 0)
    ELSE Len(t[mapNode].Content)

\* append(content[:insertAt], append([]*yaml.Node{keyNode, valNode},
\*                                   content[insertAt:]...)...)
InsertPair(content, insertAt, keyNode, valNode) ==
    SubSeq(content, 1, insertAt) \o <<keyNode, valNode>>
        \o SubSeq(content, insertAt + 1, Len(content))

\* AssignMapNode after WalkPath(mapNode, fn, keyNode) returned r
AssignMapNodeWalked(mapNode, keyNode, valNode, r) ==
    IF r.err # Nil
    THEN [err |-> r.err, t |-> r.st.t]
    ELSE IF r.st.calls # <<>>
    THEN [err |-> Nil, t |-> r.st.t]
    ELSE [err |-> Nil,
          t |-> [r.st.t EXCEPT ![mapNode].Content =
                    InsertPair(@, InsertAt(r.st.t, mapNode, keyNode),
                               keyNode, valNode)]]

\* AssignMapNode on the unwrapped mapNode
AssignMapNodeUnwrapped(t, mapNode, keyNode, valNode) ==
    IF t[mapNode].Kind # MappingNode
    THEN [err |-> InvalidType("AssignMapNode", t[mapNode].Tag), t |-> t]
    ELSE AssignMapNodeWalked(mapNode, keyNode, valNode,
            WalkPath(t, mapNode, AssignFn(valNode), <<NodeSeg(keyNode)>>, StartSt(t)))

AssignMapNode(t, mapNode, keyNode, valNode) ==
    AssignMapNodeUnwrapped(t, unwrapDocument(t, mapNode), keyNode, valNode)

AppendNodeUnchecked(t, listNode, valNode) ==
    [err |-> Nil, t |-> [t EXCEPT ![listNode].Content = Append(@, valNode)]]

AppendNode(t, listNode, valNode) ==
    IF t[listNode].Kind # SequenceNode
    THEN [err |-> InvalidType("AppendNode", t[listNode].Tag), t |-> t]
    ELSE [err |-> Nil, t |-> [t EXCEPT ![listNode].Content = Append(@, valNode)]]

IncrementByOne(t, parent) == 1

\* incrementBy of GetIndex
IncrementBy(t, parent) == IF t[parent].Kind = MappingNode THEN 2 ELSE 1

RECURSIVE GetIndexFrom(_, _, _, _)
\* the loop of GetIndex from index i (0-based)
GetIndexFrom(t, parent, target, i) ==
    IF i >= Len(t[parent].Content) THEN -1
    ELSE IF Equal(t, t[parent].Content[i + 1], target) THEN i
    ELSE GetIndexFrom(t, parent, target, i + IncrementBy(t, parent))

GetIndexUnwrapped(t, parent, target) ==
    IF t[parent].Kind # MappingNode /\ t[parent].Kind # SequenceNode
    THEN -1
    ELSE GetIndexFrom(t, parent, target, 0)

GetIndex(t, parent, target) == GetIndexUnwrapped(t, unwrapDocument(t, parent), target)

\* Remove on the unwrapped parent, ix being GetIndex(parent, target)
RemoveAt(t, parent, ix) ==
    IF ix < 0
    THEN [ok |-> FALSE, t |-> t]
    ELSE IF t[parent].Kind = MappingNode
    THEN [ok |-> TRUE,
          t |-> [t EXCEPT ![parent].Content =
                    SubSeq(@, 1, ix) \o SubSeq(@, ix + 3, Len(@))]]
    ELSE [ok |-> TRUE,
          t |-> [t EXCEPT ![parent].Content =
                    SubSeq(@, 1, ix) \o SubSeq(@, ix + 2, Len(@))]]

Remove(t, parent, target) ==
    RemoveAt(t, unwrapDocument(t, parent), GetIndex(t, unwrapDocument(t, parent), target))

\* ------------------------------------------------------------------------
\* CopyNode (src/utils.go CopyNode, copyNode)
\* ------------------------------------------------------------------------
\* the state of a copy is the heap t, the map copied from nodes to their
\* copies, and the node the last copyNode returned
RECURSIVE copyNode(_, _)
RECURSIVE copyContent(_, _, _, _)

\* cp := *src, the copy being the next free node of the heap
CopyStruct(st, src) == [st EXCEPT !.t = Append(@, st.t[src])]

\* cp.Alias = copyNode(src.Alias, copied), r being the state after that call
SetAlias(r, cp) == [r EXCEPT !.t[cp].Alias = r.node]

\* cp.Content = make([]*yaml.Node, 0, len(src.Content))
MakeContent(st, cp) == [st EXCEPT !.t[cp].Content = <<>>]

AppendChildShared(r, cp, child) == [r EXCEPT !.t[cp].Content = Append(@, child)]

\* cp.Content = append(cp.Content, copyNode(c, copied)), r being the state
\* after the call for the child c
AppendChild(r, cp, child) == [r EXCEPT !.t[cp].Content = Append(@, r.node)]

CopiedNotRecorded(st, src, cp) == [st EXCEPT !.node = cp]

\* copied[src] = &cp; return &cp
Copied(st, src, cp) == [st EXCEPT !.copied = (src :> cp) @@ @, !.node = cp]

copyAlias(st, src, cp) ==
    IF st.t[src].Alias = NilNode
    THEN st
    ELSE SetAlias(copyNode(st, st.t[src].Alias), cp)

\* the loop over src.Content from its k-th element, then the return
copyContent(st, src, cp, k) ==
    IF k > Len(st.t[src].Content)
    THEN Copied(st, src, cp)
    ELSE copyContent(AppendChild(copyNode(st, st.t[src].Content[k]), cp,
                                 st.t[src].Content[k]),
                     src, cp, k + 1)

copyNode(st, src) ==
    IF src = NilNode
    THEN [st EXCEPT !.node = NilNode]
    ELSE IF src \in DOMAIN st.copied
    THEN [st EXCEPT !.node = st.copied[src]]
    ELSE copyContent(MakeContent(copyAlias(CopyStruct(st, src), src, Len(st.t) + 1),
                                 Len(st.t) + 1),
                     src, Len(st.t) + 1, 1)

CopyNode(t, src) == copyNode([t |-> t, copied |-> <<>>, node |-> NilNode], src)

\* ------------------------------------------------------------------------
\* State machine: a tree and the record of the last operation run on it
\* ------------------------------------------------------------------------
Outcomes == {WalkExit, WalkDepthFirst, WalkBreadthFirst, WalkPrune, OutErr}

\* the maxDepth values tried (negative: unbounded)
MaxDepths == {-1, 0, 1}

\* visit functions: a default status and at most MaxSpecial nodes at which
\* the visit returns something else
MaxSpecial == 2

VisitFuncs(n) ==
    UNION {
      UNION {
        {[i \in 1..n |-> IF i \in S THEN ov[i] ELSE def] : ov \in [S -> Outcomes]}
        : S \in {X \in SUBSET (1..n) : Cardinality(X) <= MaxSpecial}}
      : def \in {WalkDepthFirst, WalkBreadthFirst}}

Result(op, f, opts, r) ==
    [op |-> op, f |-> f, opts |-> opts, err |-> r.err,
     visits |-> r.st.visits, calls |-> r.st.calls, runs |-> r.st.runs]

None == [op |-> "none"]

Init ==
    /\ tree \in ShapeTrees
    /\ res = None

\* Walk(&root, f, WithMaxDepth(d)) with an arbitrary visit function
WalkVisitor ==
    /\ res = None
    /\ \E vf \in VisitFuncs(Len(tree)), d \in MaxDepths :
        LET f == Visitor(vf)
            opts == WithMaxDepth(DefaultOpts, d)
        IN res' = Result("Walk", f, opts, Walk(tree, 1, f, opts, StartSt(tree)))
    /\ UNCHANGED tree

Next == WalkVisitor

Spec == Init /\ [][Next]_vars

\* ------------------------------------------------------------------------
\* The walker adapters
\* ------------------------------------------------------------------------
\* the indices tried by IndexWalker and the index matcher
Indices == {-1, 0, 1, 2}

\* the callback never fails, or fails on every node
CallbackErrs(t) == {{}, 1..Len(t)}

WalkOptSets ==
    {[MissStatus |-> m, matchStatus |-> x, maxDepth |-> d] :
        m \in {WalkDepthFirst, WalkBreadthFirst},
        x \in {Unset, WalkExit},
        d \in MaxDepths}

InitAdapters ==
    /\ tree \in Trees
    /\ res = None

\* Walk(&root, ScalarValuesWalker(fn), opts...)
WalkScalarValues ==
    /\ res = None
    /\ \E opts \in WalkOptSets, errs \in CallbackErrs(tree) :
        LET f == ScalarValuesWalker(Collect(errs))
        IN res' = Result("Walk", f, opts, Walk(tree, 1, f, opts, StartSt(tree)))
    /\ UNCHANGED tree

\* Walk(&root, KeyStringWalker(key, fn), opts...)
WalkKeyString ==
    /\ res = None
    /\ \E opts \in WalkOptSets, errs \in CallbackErrs(tree), key \in KeyValues :
        LET f == KeyStringWalker(key, Collect(errs))
        IN res' = Result("Walk", f, opts, Walk(tree, 1, f, opts, StartSt(tree)))
    /\ UNCHANGED tree

\* Walk(&root, IndexWalker(ix, fn), opts...)
WalkIndex ==
    /\ res = None
    /\ \E opts \in WalkOptSets, errs \in CallbackErrs(tree), ix \in Indices :
        LET f == IndexWalker(ix, Collect(errs))
        IN res' = Result("Walk", f, opts, Walk(tree, 1, f, opts, StartSt(tree)))
    /\ UNCHANGED tree

\* ------------------------------------------------------------------------
\* Path walks
\* ------------------------------------------------------------------------
MaxPath == 2

Segments ==
    {StringSeg(k) : k \in KeyValues} \cup {IntSeg(i) : i \in Indices} \cup {FloatSeg(1)}

Paths == UNION {[1..n -> Segments] : n \in 0..MaxPath}

PathResult(fn, path, r) ==
    [op |-> "WalkPath", fn |-> fn, path |-> path, err |-> r.err,
     visits |-> r.st.visits, calls |-> r.st.calls]

\* WalkPath(&root, fn, path...)
CallWalkPath ==
    /\ res = None
    /\ \E path \in Paths, errs \in CallbackErrs(tree) :
        LET fn == Collect(errs)
        IN res' = PathResult(fn, path, WalkPath(tree, 1, fn, path, StartSt(tree)))
    /\ UNCHANGED tree

NextPath == CallWalkPath

SpecPath == InitAdapters /\ [][NextPath]_vars

\* ------------------------------------------------------------------------
\* Matchers
\* ------------------------------------------------------------------------
\* the walk options given to AnyMatcher: none, or WithBreadthFirst()
AnyOpts == {DefaultOpts, WithBreadthFirst(DefaultOpts)}

\* the matchers that follow a leading wildcard
StepMatchers ==
    {KeyMatcher("a"), IndexMatcher(0), IndexMatcher(1), AnyMatcher(DefaultOpts)}

Following == UNION {[1..n -> StepMatchers] : n \in 0..MaxPath}

MatchResult(op, matchers, node, fn, r) ==
    [op |-> op, m |-> matchers, node |-> node, fn |-> fn, err |-> r.err,
     visits |-> r.st.visits, calls |-> r.st.calls]

\* KeyMatcher(key).Match(node, fn)
CallKeyMatch ==
    /\ res = None
    /\ \E node \in 1..Len(tree), key \in KeyValues, errs \in CallbackErrs(tree) :
        LET m == KeyMatcher(key)
            fn == Collect(errs)
        IN res' = MatchResult("Match", <<m>>, node, fn,
                              Match(tree, m, node, fn, StartSt(tree)))
    /\ UNCHANGED tree

\* IndexMatcher(ix).Match(node, fn)
CallIndexMatch ==
    /\ res = None
    /\ \E node \in 1..Len(tree), ix \in Indices, errs \in CallbackErrs(tree) :
        LET m == IndexMatcher(ix)
            fn == Collect(errs)
        IN res' = MatchResult("Match", <<m>>, node, fn,
                              Match(tree, m, node, fn, StartSt(tree)))
    /\ UNCHANGED tree

\* AnyMatcher(walkOpts...).Match(node, fn)
CallAnyMatch ==
    /\ res = None
    /\ \E node \in 1..Len(tree), walkOpts \in AnyOpts, errs \in CallbackErrs(tree) :
        LET m == AnyMatcher(walkOpts)
            fn == Collect(errs)
        IN res' = MatchResult("Match", <<m>>, node, fn,
                              Match(tree, m, node, fn, StartSt(tree)))
    /\ UNCHANGED tree

\* WalkPathMatchers(&root, fn, AnyMatcher(walkOpts...), following...)
CallWalkPathMatchers ==
    /\ res = None
    /\ \E walkOpts \in AnyOpts, following \in Following, errs \in CallbackErrs(tree) :
        LET matchers == <<AnyMatcher(walkOpts)>> \o following
            fn == Collect(errs)
        IN res' = MatchResult("WalkPathMatchers", matchers, 1, fn,
                              WalkPathMatchers(tree, 1, fn, matchers, StartSt(tree)))
    /\ UNCHANGED tree

NextMatch == CallKeyMatch \/ CallIndexMatch \/ CallAnyMatch \/ CallWalkPathMatchers

SpecMatch == InitAdapters /\ [][NextMatch]_vars

\* ------------------------------------------------------------------------
\* Operations that change the tree: the tree is a document with a new key
\* node and a new value node beside it
\* ------------------------------------------------------------------------
RECURSIVE Reach(_, _)
\* the nodes reached from n through Content and Alias, n excluded
Reach(t, n) ==
    LET next == {t[n].Content[k] : k \in DOMAIN t[n].Content} \cup
                (IF t[n].Alias = NilNode THEN {} ELSE {t[n].Alias})
    IN next \cup UNION {Reach(t, c) : c \in next}

DocNodes(h) == Marked(h, "doc")

NewKey(h) == FirstMarked(h, "key")

NewValue(h) == FirstMarked(h, "val")

MutResult(op, a, b, c, r) ==
    [op |-> op, a |-> a, b |-> b, c |-> c, err |-> r.err, ok |-> r.ok,
     before |-> tree]

InitMutate ==
    /\ tree \in Heaps
    /\ res = None

\* AssignNode(destNode, srcNode), srcNode not containing destNode
CallAssignNode ==
    /\ res = None
    /\ \E destNode \in DOMAIN tree, srcNode \in DOMAIN tree :
        /\ destNode \notin Reach(tree, srcNode)
        /\ tree' = AssignNode(tree, destNode, srcNode)
        /\ res' = MutResult("AssignNode", destNode, srcNode, NilNode,
                            [err |-> Nil, ok |-> TRUE])

\* AssignMapNode(mapNode, keyNode, valNode) with the new key and value
CallAssignMapNode ==
    /\ res = None
    /\ \E mapNode \in DocNodes(tree) :
        LET r == AssignMapNode(tree, mapNode, NewKey(tree), NewValue(tree))
        IN /\ tree' = r.t
           /\ res' = MutResult("AssignMapNode", mapNode, NewKey(tree), NewValue(tree),
                               [err |-> r.err, ok |-> r.err = Nil])

\* AppendNode(listNode, valNode) with the new value
CallAppendNode ==
    /\ res = None
    /\ \E listNode \in DocNodes(tree) :
        LET r == AppendNode(tree, listNode, NewValue(tree))
        IN /\ tree' = r.t
           /\ res' = MutResult("AppendNode", listNode, NewValue(tree), NilNode,
                               [err |-> r.err, ok |-> r.err = Nil])

\* Remove(parent, target)
CallRemove ==
    /\ res = None
    /\ \E parent \in DocNodes(tree), target \in DOMAIN tree :
        LET r == Remove(tree, parent, target)
        IN /\ tree' = r.t
           /\ res' = MutResult("Remove", parent, target, NilNode,
                               [err |-> Nil, ok |-> r.ok])

NextMutate == CallAssignNode \/ CallAssignMapNode \/ CallAppendNode \/ CallRemove

SpecMutate == InitMutate /\ [][NextMutate]_vars

\* ------------------------------------------------------------------------
\* A copy and then a change to the copy
\* ------------------------------------------------------------------------
CopyHeaps ==
    {doc \o Shift(key, Len(doc)) \o Shift(val, Len(doc) + Len(key)) :
        doc \in Documents \cup SharingDocuments,
        key \in {NewScalar("a", "!!str", "key"), NewScalar("x", "!!str", "key")},
        val \in {NewSequenceOf("y", "val")}}

InitCopy ==
    /\ tree \in CopyHeaps
    /\ res = None

\* copied := CopyNode(src)
CallCopyNode ==
    /\ res = None
    /\ \E src \in DocNodes(tree) :
        LET r == CopyNode(tree, src)
        IN /\ tree' = r.t
           /\ res' = [op |-> "CopyNode", src |-> src, copy |-> r.node,
                      orig |-> tree, after |-> "copy"]

\* the nodes of the copy
CopyNodes == {res.copy} \cup Reach(tree, res.copy)

Changed(change) == [res EXCEPT !.op = "CopyChanged", !.after = change]

\* AssignNode(destNode, srcNode) on a node of the copy
AssignInCopy ==
    /\ res.op = "CopyNode"
    /\ \E destNode \in CopyNodes,
          srcNode \in CopyNodes \cup {NewKey(res.orig), NewValue(res.orig)} :
        /\ destNode \notin Reach(tree, srcNode)
        /\ tree' = AssignNode(tree, destNode, srcNode)
        /\ res' = Changed("AssignNode")

\* AssignMapNode(mapNode, keyNode, valNode) on a node of the copy
AssignMapInCopy ==
    /\ res.op = "CopyNode"
    /\ \E mapNode \in CopyNodes :
        /\ tree' = AssignMapNode(tree, mapNode, NewKey(res.orig), NewValue(res.orig)).t
        /\ res' = Changed("AssignMapNode")

\* AppendNode(listNode, valNode) on a node of the copy
AppendInCopy ==
    /\ res.op = "CopyNode"
    /\ \E listNode \in CopyNodes :
        /\ tree' = AppendNode(tree, listNode, NewValue(res.orig)).t
        /\ res' = Changed("AppendNode")

\* Remove(parent, target) on a node of the copy
RemoveInCopy ==
    /\ res.op = "CopyNode"
    /\ \E parent \in CopyNodes, target \in DOMAIN tree :
        /\ tree' = Remove(tree, parent, target).t
        /\ res' = Changed("Remove")

NextCopy ==
    CallCopyNode \/ AssignInCopy \/ AssignMapInCopy \/ AppendInCopy \/ RemoveInCopy

SpecCopy == InitCopy /\ [][NextCopy]_vars

NextAdapters == WalkScalarValues \/ WalkKeyString \/ WalkIndex

SpecAdapters == InitAdapters /\ [][NextAdapters]_vars

\* ------------------------------------------------------------------------
\* Tree vocabulary of the properties
\* ------------------------------------------------------------------------
Nodes(t) == 1..Len(t)

Children(t, n) == {t[n].Content[k] : k \in DOMAIN t[n].Content}

Range(q) == {q[k] : k \in DOMAIN q}

Root(t) == IF t[1].Kind = DocumentNode /\ Len(t[1].Content) > 0
           THEN t[1].Content[1] ELSE 1

ParentOf(t, n) ==
    IF \E p \in Nodes(t) : n \in Range(t[p].Content)
    THEN CHOOSE p \in Nodes(t) : n \in Range(t[p].Content)
    ELSE NilNode

\* number of Content edges from the (unwrapped) root down to n
RECURSIVE TreeDepth(_, _)
TreeDepth(t, n) ==
    IF n = Root(t) \/ ParentOf(t, n) = NilNode THEN 0
    ELSE 1 + TreeDepth(t, ParentOf(t, n))

\* proper descendants of n
RECURSIVE Desc(_, _)
Desc(t, n) ==
    Range(t[n].Content) \cup UNION {Desc(t, c) : c \in Range(t[n].Content)}

\* 1-based slot of n in its parent's Content
SlotOf(t, n) ==
    LET c == t[ParentOf(t, n)].Content
    IN CHOOSE k \in DOMAIN c : c[k] = n

IsValueSlot(t, n) ==
    /\ ParentOf(t, n) # NilNode
    /\ t[ParentOf(t, n)].Kind = MappingNode
    /\ SlotOf(t, n) % 2 = 0

\* the nodes a full traversal passes to the visit function
Visitable(t) ==
    {n \in {Root(t)} \cup Desc(t, Root(t)) : n = Root(t) \/ ~IsValueSlot(t, n)}

WellFormed(t) ==
    \A n \in Nodes(t) : t[n].Kind = MappingNode => Len(t[n].Content) % 2 = 0

VisitedSet(visits) == {visits[k].cur : k \in DOMAIN visits}

NoExitOrErr(r) ==
    /\ r.err = Nil
    /\ \A k \in DOMAIN r.st.visits :
          r.st.visits[k].ws # WalkExit /\ r.st.visits[k].err = Nil

IsWalk == res.op = "Walk"

\* ------------------------------------------------------------------------
\* C1: an error returned by any visit is the error Walk returns.
\* ------------------------------------------------------------------------
ClaimC1_ErrorReturned ==
    IsWalk =>
      \A k \in DOMAIN res.visits :
          res.visits[k].err.kind = "error" => res.err = res.visits[k].err

\* ------------------------------------------------------------------------
\* C2: a visit returning Prune
\* ------------------------------------------------------------------------
\* the nodes walk gives up when the visit v returns Prune: what lies below
\* the pruned node, and the later children of its parent with what lies
\* below them
PruneRegion(t, v) ==
    IF v.parent = NilNode THEN Desc(t, v.cur)
    ELSE LET c == t[v.parent].Content
             laterSibs == {c[j] : j \in (v.pos + 2)..Len(c)}
         IN Desc(t, v.cur) \cup laterSibs \cup UNION {Desc(t, x) : x \in laterSibs}

\* what lies below the pruned node (below the value, for a mapping key)
PrunedSubtree(t, v) ==
    IF v.parent # NilNode /\ t[v.parent].Kind = MappingNode
    THEN Desc(t, t[v.parent].Content[v.pos + 2])
    ELSE Desc(t, v.cur)

\* the later children of the pruned node's parent that a walk visits
LaterSiblings(t, v) ==
    IF v.parent = NilNode THEN {}
    ELSE LET c == t[v.parent].Content
         IN {c[j] : j \in {x \in (v.pos + 2)..Len(c) :
                              t[v.parent].Kind = MappingNode => x % 2 = 1}}

\* the same walk in which the visit of node n returns DepthFirst
WalkWithDepthFirstAt(n) ==
    Walk(tree, 1, Visitor([res.f.vf EXCEPT ![n] = WalkDepthFirst]), res.opts, StartSt(tree))

\* C2 as stated: Prune skips only the descendants of the pruned node; every
\* later sibling is still visited, and against the same walk with DepthFirst
\* at that node the visited set shrinks by exactly those descendants.
ClaimC2_PruneKeepsSiblings ==
    IsWalk /\ res.opts.maxDepth < 0 /\ NoExitOrErr([err |-> res.err, st |-> res]) =>
      \A k \in DOMAIN res.visits :
        LET v == res.visits[k]
            alt == WalkWithDepthFirstAt(v.cur)
        IN v.ws = WalkPrune =>
             /\ VisitedSet(res.visits) \cap PrunedSubtree(tree, v) = {}
             /\ LaterSiblings(tree, v) \subseteq VisitedSet(res.visits)
             /\ NoExitOrErr(alt) =>
                  VisitedSet(res.visits) =
                     VisitedSet(alt.st.visits) \ PrunedSubtree(tree, v)

\* C2 amended: Prune ends the walk of the whole level: neither a descendant
\* of the pruned node nor a later sibling (nor anything below one) is
\* visited, and against the same walk with DepthFirst at that node (no visit
\* exiting or failing) the visited set shrinks by exactly that region.
ThmC2_PruneEndsLevel ==
    IsWalk =>
      \A k \in DOMAIN res.visits :
        LET v == res.visits[k]
            alt == WalkWithDepthFirstAt(v.cur)
        IN v.ws = WalkPrune /\ v.err = Nil =>
             /\ VisitedSet(res.visits) \cap PruneRegion(tree, v) = {}
             /\ NoExitOrErr(alt) =>
                  VisitedSet(res.visits) =
                     VisitedSet(alt.st.visits) \ PruneRegion(tree, v)

\* a Prune at a node that has a subtree and a later sibling
WitC2_PruneWithSiblings ==
    /\ IsWalk
    /\ \E k \in DOMAIN res.visits :
         LET v == res.visits[k]
         IN /\ v.ws = WalkPrune
            /\ v.parent # NilNode
            /\ PrunedSubtree(tree, v) # {}
            /\ LaterSiblings(tree, v) # {}

\* ------------------------------------------------------------------------
\* C3: after a visit returns Exit there is no further visit and Walk
\* returns nil.
\* ------------------------------------------------------------------------
ThmC3_ExitStops ==
    IsWalk =>
      \A k \in DOMAIN res.visits :
          res.visits[k].ws = WalkExit /\ res.visits[k].err = Nil =>
              k = Len(res.visits) /\ res.err = Nil

\* Exit inside a deferred continuation while another continuation, whose
\* node has children, is still pending
WitC3_ExitInContinuation ==
    /\ IsWalk
    /\ \E k, i, j \in DOMAIN res.visits :
         /\ res.visits[k].ws = WalkExit
         /\ i < k /\ j < k /\ i # j
         /\ res.visits[i].ws = WalkBreadthFirst
         /\ res.visits[k].parent = res.visits[i].cur
         /\ res.visits[j].ws = WalkBreadthFirst
         /\ Children(tree, res.visits[j].cur) # {}
         /\ Children(tree, res.visits[j].cur) \cap VisitedSet(res.visits) = {}

\* ------------------------------------------------------------------------
\* C8: WithMaxDepth(d), d >= 0, never lets a node more than d+1 levels
\* below the root be visited; a negative maxDepth places no bound.
\* ------------------------------------------------------------------------
ThmC8_MaxDepthBound ==
    IsWalk =>
      /\ res.opts.maxDepth >= 0 =>
           \A k \in DOMAIN res.visits :
               TreeDepth(tree, res.visits[k].cur) <= res.opts.maxDepth + 1
      /\ ( /\ res.opts.maxDepth < 0
           /\ res.err = Nil
           /\ \A k \in DOMAIN res.visits :
                 /\ res.visits[k].ws \in {WalkDepthFirst, WalkBreadthFirst}
                 /\ res.visits[k].err = Nil )
           => VisitedSet(res.visits) = Visitable(tree)

\* maxDepth 0 on a tree three levels deep, with a child of the root visited
\* depth-first and another deferred, both having children
WitC8_MaxDepthZero ==
    /\ IsWalk
    /\ res.opts.maxDepth = 0
    /\ \E i, j \in DOMAIN res.visits :
         /\ res.visits[i].ws = WalkDepthFirst
         /\ res.visits[j].ws = WalkBreadthFirst
         /\ TreeDepth(tree, res.visits[i].cur) = 1
         /\ TreeDepth(tree, res.visits[j].cur) = 1
         /\ Children(tree, res.visits[i].cur) # {}
         /\ Children(tree, res.visits[j].cur) # {}

\* ------------------------------------------------------------------------
\* C9: the root is visited exactly once, first, with parent nil and
\* position -1; every other visit has parent.Content[position] = current,
\* and under a Mapping parent the position is even (a key, never a value).
\* ------------------------------------------------------------------------
ThmC9_VisitArguments ==
    IsWalk =>
      /\ Len(res.visits) >= 1
      /\ res.visits[1].cur = Root(tree)
      /\ res.visits[1].parent = NilNode
      /\ res.visits[1].pos = -1
      /\ \A k \in DOMAIN res.visits : k > 1 =>
           LET v == res.visits[k]
           IN /\ v.cur # Root(tree)
              /\ v.parent # NilNode
              /\ v.pos >= 0 /\ v.pos < Len(tree[v.parent].Content)
              /\ tree[v.parent].Content[v.pos + 1] = v.cur
              /\ tree[v.parent].Kind = MappingNode =>
                    v.pos % 2 = 0 /\ ~IsValueSlot(tree, v.cur)

\* the key of the second pair of a mapping was visited
WitC9_MappingPairs ==
    /\ IsWalk
    /\ \E i \in DOMAIN res.visits :
         /\ res.visits[i].parent # NilNode
         /\ tree[res.visits[i].parent].Kind = MappingNode
         /\ res.visits[i].pos = 2

\* ------------------------------------------------------------------------
\* Vocabulary of the adapter properties
\* ------------------------------------------------------------------------
RECURSIVE PreOrder(_, _)
RECURSIVE PreOrderFrom(_, _, _)
\* the nodes of the subtree of n in document order
PreOrder(t, n) == <<n>> \o PreOrderFrom(t, t[n].Content, 1)

PreOrderFrom(t, c, k) ==
    IF k > Len(c) THEN <<>> ELSE PreOrder(t, c[k]) \o PreOrderFrom(t, c, k + 1)

IsKey(t, n) ==
    /\ ParentOf(t, n) # NilNode
    /\ t[ParentOf(t, n)].Kind = MappingNode
    /\ SlotOf(t, n) % 2 = 1

IsScalarValue(t, n) == t[n].Kind = ScalarNode /\ ~IsKey(t, n)

\* the scalar sequence elements and scalar mapping values in document order
ScalarValuesInOrder(t) ==
    LET Test(n) == IsScalarValue(t, n)
    IN SelectSeq(PreOrder(t, Root(t)), Test)

Count(q, x) == Cardinality({k \in DOMAIN q : q[k] = x})

IsPermutation(p, q) ==
    /\ Len(p) = Len(q)
    /\ \A x \in Range(p) \cup Range(q) : Count(p, x) = Count(q, x)

IsAdapter == res.op = "Walk" /\ res.f.type \in {"ScalarValues", "KeyString", "Index"}

IsScalarValuesWalk == res.op = "Walk" /\ res.f.type = "ScalarValues"

\* the walk of res run again with other options
WalkWith(opts) == Walk(tree, 1, res.f, opts, StartSt(tree))

\* ------------------------------------------------------------------------
\* C4: depth-first, ScalarValuesWalker calls the callback exactly once for
\* every scalar that is not a mapping key (sequence elements and mapping
\* values), in document order.
\* ------------------------------------------------------------------------
ClaimC4_ScalarValuesInOrder ==
    ( /\ IsScalarValuesWalk
      /\ res.opts = DefaultOpts
      /\ res.f.fn.errs = {}
      /\ res.err = Nil )
    => res.calls = ScalarValuesInOrder(tree)

\* ------------------------------------------------------------------------
\* C5: when every visit returns BreadthFirst the visits (and so the
\* callback calls) come in level order: a node is never visited after a
\* node that is deeper in the tree.
\* ------------------------------------------------------------------------
AllBreadthFirst ==
    \A k \in DOMAIN res.visits :
        res.visits[k].ws = WalkBreadthFirst /\ res.visits[k].err = Nil

ThmC5_LevelOrder ==
    (IsAdapter /\ AllBreadthFirst) =>
      /\ \A i, j \in DOMAIN res.visits :
            i < j => TreeDepth(tree, res.visits[i].cur) <= TreeDepth(tree, res.visits[j].cur)
      /\ IsScalarValuesWalk =>
            \A i, j \in DOMAIN res.calls :
               i < j => TreeDepth(tree, res.calls[i]) <= TreeDepth(tree, res.calls[j])

\* a breadth-first scalar walk three levels deep in which a node was
\* visited before a node that precedes it in document order
WitC5_ThreeLevels ==
    /\ IsScalarValuesWalk
    /\ AllBreadthFirst
    /\ \E k \in DOMAIN res.visits : TreeDepth(tree, res.visits[k].cur) >= 3
    /\ \E i, j \in DOMAIN res.visits : i < j /\ res.visits[i].cur > res.visits[j].cur

\* ------------------------------------------------------------------------
\* C6: the callback calls of the breadth-first scalar walk are a
\* permutation of those of the depth-first scalar walk.
\* ------------------------------------------------------------------------
ThmC6_BreadthPermutesDepth ==
    ( /\ IsScalarValuesWalk
      /\ res.opts.MissStatus = WalkBreadthFirst
      /\ res.opts.matchStatus = Unset
      /\ res.f.fn.errs = {} )
    => LET dfs == WalkWith([res.opts EXCEPT !.MissStatus = WalkDepthFirst])
       IN /\ IsPermutation(res.calls, dfs.st.calls)
          /\ res.err = dfs.err

\* the two orders differ
WitC6_OrdersDiffer ==
    /\ IsScalarValuesWalk
    /\ res.opts.MissStatus = WalkBreadthFirst
    /\ res.opts.matchStatus = Unset
    /\ res.opts.maxDepth < 0
    /\ res.f.fn.errs = {}
    /\ Len(res.calls) >= 2
    /\ res.calls # WalkWith([res.opts EXCEPT !.MissStatus = WalkDepthFirst]).st.calls

\* ------------------------------------------------------------------------
\* C7: with WithFirstOnly an adapter calls the callback at most once, on
\* the first match of the same walk without WithFirstOnly, and the visit
\* that matched is the last visit.
\* ------------------------------------------------------------------------
ThmC7_FirstOnly ==
    (IsAdapter /\ res.opts.matchStatus = WalkExit) =>
      LET full == WalkWith([res.opts EXCEPT !.matchStatus = Unset])
      IN /\ Len(res.calls) <= 1
         /\ res.calls = IF full.st.calls = <<>> THEN <<>> ELSE <<full.st.calls[1]>>
         /\ res.calls # <<>> =>
               \A k \in DOMAIN res.visits : res.visits[k].calls = 1 <=> k = Len(res.visits)

\* the walk without WithFirstOnly has several matches, and WithFirstOnly
\* left nodes unvisited
WitC7_FirstOfSeveral ==
    /\ IsAdapter
    /\ res.opts.matchStatus = WalkExit
    /\ res.opts.maxDepth < 0
    /\ res.f.fn.errs = {}
    /\ Len(res.calls) = 1
    /\ LET full == WalkWith([res.opts EXCEPT !.matchStatus = Unset])
       IN /\ Len(full.st.calls) >= 2
          /\ Len(full.st.visits) > Len(res.visits)

\* ------------------------------------------------------------------------
\* C10: on a tree without duplicate keys WalkPath with key and index
\* segments calls fn exactly once, on the node the path leads to from the
\* unwrapped root, or never when there is no such node; it returns nil.
\* ------------------------------------------------------------------------
KeysOf(t, n) == {t[n].Content[k] : k \in {j \in DOMAIN t[n].Content : j % 2 = 1}}

NoDuplicateKeys(t) ==
    \A n \in Nodes(t) : t[n].Kind = MappingNode =>
        \A k1, k2 \in KeysOf(t, n) : t[k1].Value = t[k2].Value => k1 = k2

\* the node reached from n by following the keys and indices of path
RECURSIVE Resolve(_, _, _)
Resolve(t, n, path) ==
    IF path = <<>> THEN n
    ELSE LET p == Head(path)
         IN IF p.type = "string"
            THEN IF t[n].Kind = MappingNode
                    /\ \E k \in KeysOf(t, n) : t[k].Value = p.s
                 THEN LET key == CHOOSE k \in KeysOf(t, n) : t[k].Value = p.s
                      IN Resolve(t, t[n].Content[SlotOf(t, key) + 1], Tail(path))
                 ELSE NilNode
            ELSE IF t[n].Kind = SequenceNode /\ p.n >= 0 /\ p.n < Len(t[n].Content)
                 THEN Resolve(t, t[n].Content[p.n + 1], Tail(path))
                 ELSE NilNode

IsKeyIndexPath ==
    res.op = "WalkPath" /\ \A k \in DOMAIN res.path : res.path[k].type \in {"string", "int"}

ThmC10_WalkPathResolves ==
    (IsKeyIndexPath /\ NoDuplicateKeys(tree) /\ res.fn.errs = {}) =>
      LET target == Resolve(tree, Root(tree), res.path)
      IN /\ res.err = Nil
         /\ res.calls = IF target = NilNode THEN <<>> ELSE <<target>>

\* a key followed by an index led to the second element of a sequence
WitC10_KeyThenIndex ==
    /\ IsKeyIndexPath
    /\ res.fn.errs = {}
    /\ Len(res.path) = 2
    /\ res.path[1].type = "string"
    /\ res.path[2] = IntSeg(1)
    /\ Len(res.calls) = 1
    /\ tree[res.calls[1]].Kind = ScalarNode

\* ------------------------------------------------------------------------
\* C11: which nodes AnyMatcher().Match(node, fn) hands to fn
\* ------------------------------------------------------------------------
IsMatchOf(type) == res.op = "Match" /\ res.m[1].type = type

\* the value node of each pair of a Mapping, each element otherwise
ImmediateChildren(t, n) ==
    IF t[n].Kind = MappingNode
    THEN {t[n].Content[k] : k \in {j \in DOMAIN t[n].Content : j % 2 = 0}}
    ELSE Range(t[n].Content)

\* the nodes of q in the order of q, without those of drop
RECURSIVE Without(_, _)
Without(q, drop) ==
    IF q = <<>> THEN <<>>
    ELSE IF Head(q) \in drop THEN Without(Tail(q), drop)
    ELSE <<Head(q)>> \o Without(Tail(q), drop)

\* the node the matcher starts from and all its descendants except mapping
\* keys, in document order
SelfAndValues(t, node) ==
    LET u == unwrapDocument(t, node)
    IN <<u>> \o Without(PreOrderFrom(t, t[u].Content, 1),
                        {d \in Nodes(t) : IsKey(t, d)})

IsLeadingAny(walkOpts) ==
    /\ res.op = "WalkPathMatchers"
    /\ res.m[1].type = "any"
    /\ res.m[1].walkOpts = walkOpts
    /\ res.fn.errs = {}

\* the same call with the leading wildcard given no options
WithLeadingAny ==
    WalkPathMatchers(tree, 1, res.fn, <<AnyMatcher(DefaultOpts)>> \o Tail(res.m),
                     StartSt(tree))

ThmC12_BreadthFirstSameMatches ==
    IsLeadingAny(WithBreadthFirst(DefaultOpts)) =>
      /\ res.err = Nil
      /\ WithLeadingAny.err = Nil
      /\ IsPermutation(res.calls, WithLeadingAny.st.calls)
      /\ Len(res.m) = 1 =>
            \A j, k \in DOMAIN res.calls :
                j < k => TreeDepth(tree, res.calls[j]) <= TreeDepth(tree, res.calls[k])

\* two matches below different children of the root come in one order
\* depth-first and in the other breadth-first
WitC12_OrderDiffers ==
    /\ IsLeadingAny(WithBreadthFirst(DefaultOpts))
    /\ Len(res.m) > 1
    /\ Len(res.calls) > 1
    /\ res.calls # WithLeadingAny.st.calls

\* ------------------------------------------------------------------------
\* C13: the key matcher on a Mapping calls the callback only with values of
\* the mapping's own pairs whose key Value is the key searched, in Content
\* order; once for every such pair when the callback returns no error, and
\* up to the first call that fails otherwise.
\* ------------------------------------------------------------------------
RECURSIVE KeyMatchesFrom(_, _, _, _)
\* the values of the pairs of node from slot k on whose key Value is key
KeyMatchesFrom(t, node, key, k) ==
    IF k + 1 > Len(t[node].Content) THEN <<>>
    ELSE (IF t[t[node].Content[k]].Value = key
          THEN <<t[node].Content[k + 1]>> ELSE <<>>)
         \o KeyMatchesFrom(t, node, key, k + 2)

IsPrefix(p, q) == Len(p) <= Len(q) /\ SubSeq(q, 1, Len(p)) = p

ThmC13_KeyMatcherValues ==
    (IsMatchOf("key") /\ tree[res.node].Kind = MappingNode) =>
      LET expected == KeyMatchesFrom(tree, res.node, res.m[1].key, 1)
      IN /\ IsPrefix(res.calls, expected)
         /\ res.fn.errs = {} => res.calls = expected
         /\ res.fn.errs # {} => Len(res.calls) <= 1
         /\ \A x \in Range(res.calls) :
               x # res.node /\ ~IsKey(tree, x) /\ ParentOf(tree, x) = res.node

\* the key occurs in the mapping searched and again in a mapping nested in
\* it: only the value of the outer pair is passed
WitC13_NestedSameKey ==
    /\ IsMatchOf("key") /\ tree[res.node].Kind = MappingNode
    /\ res.fn.errs = {}
    /\ Len(res.calls) = 1
    /\ \E d \in Desc(tree, res.node) :
          /\ IsKey(tree, d)
          /\ ParentOf(tree, d) # res.node
          /\ tree[d].Value = res.m[1].key

\* ------------------------------------------------------------------------
\* C14: a path with a segment that is neither a string, an int nor a node,
\* at whatever position, makes WalkPath return the error naming the type
\* and the value of the first such segment, with no visit made and the
\* callback never called.
\* ------------------------------------------------------------------------
BadSegments(path) == {k \in DOMAIN path : path[k].type \notin {"string", "int", "node"}}

ThmC14_BadSegmentFailsFirst ==
    (res.op = "WalkPath" /\ BadSegments(res.path) # {}) =>
      LET bad == CHOOSE k \in BadSegments(res.path) :
                    \A j \in BadSegments(res.path) : k <= j
      IN /\ res.err.kind = "Unable to make PathMatcher from type " \o res.path[bad].type
         /\ res.err.at = res.path[bad].n
         /\ res.visits = <<>>
         /\ res.calls = <<>>

\* the float comes after a segment that alone reaches a node of the tree
WitC14_FloatAfterMatch ==
    /\ res.op = "WalkPath"
    /\ Len(res.path) = 2
    /\ res.path[2] = FloatSeg(1)
    /\ res.path[1].type = "string"
    /\ WalkPath(tree, 1, res.fn, <<res.path[1]>>, StartSt(tree)).st.calls # <<>>
    /\ res.err.kind = "Unable to make PathMatcher from type float64"
    /\ res.calls = <<>>

\* ------------------------------------------------------------------------
\* C15: a matcher applied to a node of the wrong shape returns nil and
\* never calls the continuation: the key matcher on a node that is not a
\* Mapping and the index matcher on a node that is not a Sequence do not
\* even walk; the index matcher on a Sequence with an index that is
\* negative or not below its length walks and finds nothing.
\* ------------------------------------------------------------------------
IndexOutOfRange ==
    /\ IsMatchOf("index")
    /\ tree[res.node].Kind = SequenceNode
    /\ (res.m[1].ix < 0 \/ res.m[1].ix >= Len(tree[res.node].Content))

ThmC15_ShapeMismatchNoOp ==
    /\ (IsMatchOf("key") /\ tree[res.node].Kind # MappingNode) =>
          res.err = Nil /\ res.calls = <<>> /\ res.visits = <<>>
    /\ (IsMatchOf("index") /\ tree[res.node].Kind # SequenceNode) =>
          res.err = Nil /\ res.calls = <<>> /\ res.visits = <<>>
    /\ IndexOutOfRange => res.err = Nil /\ res.calls = <<>>

\* an index just past the end of a Sequence of two elements, with a
\* callback that would fail if it were called
WitC15_IndexPastEnd ==
    /\ IndexOutOfRange
    /\ Len(tree[res.node].Content) = 2
    /\ res.m[1].ix = 2
    /\ res.fn.errs # {}
    /\ Len(res.visits) = 3
    /\ res.err = Nil

\* ------------------------------------------------------------------------
\* C16: AssignNode(dest, src) gives dest the Kind, Tag, Value, Content,
\* Alias and Anchor of src and leaves its comments, Line, Column and Style
\* alone; no other node changes (src included) and Equal(dest, src) holds.
\* ------------------------------------------------------------------------
Structure == {"Kind", "Tag", "Value", "Content", "Alias", "Anchor"}

DocumentData ==
    {"HeadComment", "LineComment", "FootComment", "Line", "Column", "Style"}

ThmC16_AssignNodeFrame ==
    res.op = "AssignNode" =>
      /\ \A f \in Structure : tree[res.a][f] = res.before[res.b][f]
      /\ \A f \in DocumentData : tree[res.a][f] = res.before[res.a][f]
      /\ DOMAIN tree = DOMAIN res.before
      /\ \A n \in DOMAIN tree : n # res.a => tree[n] = res.before[n]
      /\ Equal(tree, res.a, res.b)

\* a node of the document takes the structure of a new node that differs
\* from it in every copied field that can differ and in its comments
WitC16_DocumentNodeAssigned ==
    /\ res.op = "AssignNode"
    /\ res.before[res.a].LineComment = "doc"
    /\ res.before[res.b].LineComment = "val"
    /\ res.before[res.a].Kind # res.before[res.b].Kind
    /\ res.before[res.a].Tag # res.before[res.b].Tag
    /\ res.before[res.a].Content # res.before[res.b].Content
    /\ res.before[res.a].Anchor # res.before[res.b].Anchor
    /\ tree[res.a].LineComment = "doc"
    /\ tree[res.a].Anchor = "y"

\* ------------------------------------------------------------------------
\* C17: when the mapping has a key equal to keyNode, AssignMapNode gives the
\* value node of that pair the structure of valNode, keeping its comments,
\* and changes no other node: not the key, not the pairs of the mapping,
\* nothing nested deeper.
\* ------------------------------------------------------------------------
IsAssignMapNode ==
    res.op = "AssignMapNode" /\ res.before[unwrapDocument(res.before, res.a)].Kind = MappingNode

\* index (0-based) of the first key of the mapping equal to keyNode, or -1
KeyIndex == GetIndex(res.before, res.a, res.b)

ClaimC17_ExistingKeyValueOverwritten ==
    (IsAssignMapNode /\ KeyIndex >= 0) =>
      LET mapNode == unwrapDocument(res.before, res.a)
          value == res.before[mapNode].Content[KeyIndex + 2]
      IN /\ res.err = Nil
         /\ \A f \in Structure : tree[value][f] = res.before[res.c][f]
         /\ \A f \in DocumentData : tree[value][f] = res.before[value][f]
         /\ \A n \in DOMAIN tree : n # value => tree[n] = res.before[n]

\* ------------------------------------------------------------------------
\* C18: when the mapping has no key equal to keyNode, AssignMapNode inserts
\* the pair (keyNode, valNode): Content grows by 2, the pairs that were
\* there keep their order, a scalar key goes before the first key with a
\* greater Value (so ascending keys stay ascending), any other key goes to
\* the end; no other node changes.
\* ------------------------------------------------------------------------
\* the pair (keyNode, valNode) was inserted at index p (0-based) of content
InsertedAt(before, after, p, keyNode, valNode) ==
    /\ Len(after) = Len(before) + 2
    /\ SubSeq(after, 1, p) = SubSeq(before, 1, p)
    /\ after[p + 1] = keyNode /\ after[p + 2] = valNode
    /\ SubSeq(after, p + 3, Len(after)) = SubSeq(before, p + 1, Len(before))

\* the keys of content have ascending Values
Ascending(t, content) ==
    \A j, k \in {i \in DOMAIN content : i % 2 = 1} :
        j < k => ~StrLess(t[content[k]].Value, t[content[j]].Value)

ClaimC18_MissingKeyInserted ==
    (IsAssignMapNode /\ KeyIndex < 0) =>
      LET mapNode == unwrapDocument(res.before, res.a)
          before == res.before[mapNode].Content
          after == tree[mapNode].Content
      IN /\ res.err = Nil
         /\ \E p \in {i \in 0..Len(before) : i % 2 = 0} :
               /\ InsertedAt(before, after, p, res.b, res.c)
               /\ res.before[res.b].Kind # ScalarNode => p = Len(before)
               /\ res.before[res.b].Kind = ScalarNode =>
                     /\ \A k \in 1..p : k % 2 = 1 =>
                           ~StrLess(res.before[res.b].Value, res.before[before[k]].Value)
                     /\ p < Len(before) =>
                           StrLess(res.before[res.b].Value, res.before[before[p + 1]].Value)
                     /\ Ascending(res.before, before) => Ascending(tree, after)
         /\ \A n \in DOMAIN tree : n # mapNode => tree[n] = res.before[n]
         /\ [tree[mapNode] EXCEPT !.Content = before] = res.before[mapNode]

\* ------------------------------------------------------------------------
\* C19: Remove(parent, target) returns true exactly when the unwrapped
\* parent is a Mapping with a key, or a Sequence with an element, equal to
\* target; it then deletes the first such key with its value, or the first
\* such element, and nothing else; when it returns false nothing changes.
\* ------------------------------------------------------------------------
\* the slots (1-based) of the unwrapped parent p that Remove compares
SearchedSlots(t, p) ==
    IF t[p].Kind = MappingNode
    THEN {k \in DOMAIN t[p].Content : k % 2 = 1}
    ELSE IF t[p].Kind = SequenceNode THEN DOMAIN t[p].Content
    ELSE {}

EqualSlots(t, p, target) ==
    {k \in SearchedSlots(t, p) : Equal(t, t[p].Content[k], target)}

\* q without the n elements from slot k on
Cut(q, k, n) == SubSeq(q, 1, k - 1) \o SubSeq(q, k + n, Len(q))

ThmC19_RemoveFirstEqual ==
    res.op = "Remove" =>
      LET p == unwrapDocument(res.before, res.a)
          slots == EqualSlots(res.before, p, res.b)
      IN /\ res.ok <=> slots # {}
         /\ ~res.ok => tree = res.before
         /\ res.ok =>
              LET first == CHOOSE k \in slots : \A j \in slots : k <= j
              IN /\ tree[p].Content =
                      Cut(res.before[p].Content, first,
                          IF res.before[p].Kind = MappingNode THEN 2 ELSE 1)
                 /\ [tree[p] EXCEPT !.Content = res.before[p].Content] = res.before[p]
                 /\ \A n \in DOMAIN tree : n # p => tree[n] = res.before[n]

\* a Sequence holds two elements equal to a target that is neither of them:
\* the first goes, the second stays
WitC19_FirstOfTwo ==
    /\ res.op = "Remove" /\ res.ok
    /\ res.before[res.a].Kind = SequenceNode
    /\ Len(res.before[res.a].Content) = 2
    /\ res.b \notin Range(res.before[res.a].Content)
    /\ EqualSlots(res.before, res.a, res.b) = {1, 2}
    /\ tree[res.a].Content = <<res.before[res.a].Content[2]>>

\* ------------------------------------------------------------------------
\* C20: the copy CopyNode(src) returns is Equal to src and shares no node
\* with it, through Content or Alias; the copy leaves every node that was
\* there as it was, and so does an AssignNode, AssignMapNode, AppendNode or
\* Remove applied afterwards to a node of the copy.
\* ------------------------------------------------------------------------
ThmC20_CopyIsEqualAndSeparate ==
    /\ res.op = "CopyNode" =>
          /\ Equal(tree, res.copy, res.src)
          /\ ({res.copy} \cup Reach(tree, res.copy))
                 \cap ({res.src} \cup Reach(tree, res.src)) = {}
          /\ CopyNodes \cap DOMAIN res.orig = {}
    /\ res.op \in {"CopyNode", "CopyChanged"} =>
          \A n \in DOMAIN res.orig : tree[n] = res.orig[n]

\* the copy of a Sequence that holds an alias has lost an element, and the
\* original has not
WitC20_CopyChanged ==
    /\ res.op = "CopyChanged" /\ res.after = "Remove"
    /\ res.orig[res.src].Kind = SequenceNode
    /\ \E n \in Reach(res.orig, res.src) : res.orig[n].Kind = AliasNode
    /\ Len(tree[res.copy].Content) < Len(tree[res.src].Content)
    /\ tree[res.src] = res.orig[res.src]

\* ------------------------------------------------------------------------
\* Equal on two separately built trees
\* ------------------------------------------------------------------------
MaxPairs == 2

RECURSIVE Joined(_, _)
\* the trees of subs one after the other, from node id by + 1
Joined(subs, by) ==
    IF subs = <<>> THEN <<>>
    ELSE Shift(subs[1], by) \o Joined(Tail(subs), by + Len(subs[1]))

RECURSIVE Roots(_, _)
Roots(subs, by) ==
    IF subs = <<>> THEN <<>>
    ELSE <<by + 1>> \o Roots(Tail(subs), by + Len(subs[1]))

\* a Mapping node whose Content is the roots of the trees of subs
NewMappingWith(subs, comment) ==
    <<Node(MappingNode, "!!map", "", Roots(subs, 1), NilNode, "", comment, 0)>>
        \o Joined(subs, 1)

\* mappings of up to MaxPairs pairs, with scalar and Sequence keys, the
\* same key possibly twice
PairsOf(comment) ==
    {<<k, v>> : k \in {NewScalar("a", "!!str", comment), NewScalar("b", "!!str", comment),
                       NewSequenceOf("x", comment), NewSequenceOf("y", comment)},
               v \in {NewScalar("x", "!!str", comment), NewScalar("y", "!!str", comment)}}

PairMaps(comment) ==
    {NewMappingWith(Flatten(ps), comment) :
        ps \in UNION {[1..n -> PairsOf(comment)] : n \in 0..MaxPairs}}

\* the document d as another parse gives it: other comments and positions
Reparsed(d, comment) ==
    [n \in DOMAIN d |->
        [d[n] EXCEPT !.HeadComment = comment, !.LineComment = comment,
                     !.FootComment = comment, !.Column = 2, !.Style = 1,
                     !.Anchor = IF @ = "" THEN "" ELSE "y"]]

EqualOperands(comment) ==
    PairMaps(comment) \cup
    {Reparsed(d, comment) :
        d \in {d \in Documents : /\ Len(d) <= 3
                                  /\ \A n \in DOMAIN d : d[n].Kind # MappingNode}}

InitEqual ==
    /\ tree \in {a \o Shift(b, Len(a)) :
                    a \in EqualOperands("doc"), b \in EqualOperands("val")}
    /\ res = None

\* ok := Equal(a, b) on the roots of the two trees
CallEqual ==
    /\ res = None
    /\ \E b \in {n \in DOMAIN tree : n > 1 /\ Ancestors(tree, n) = {}
                                      /\ \A m \in DOMAIN tree : tree[m].Alias # n} :
        /\ res' = [op |-> "Equal", a |-> 1, b |-> b, ok |-> Equal(tree, 1, b)]
        /\ UNCHANGED tree

NextEqual == CallEqual

SpecEqual == InitEqual /\ [][NextEqual]_vars

\* ------------------------------------------------------------------------
\* RangeMap, and the operations that check the shape of their target
\* ------------------------------------------------------------------------
\* a callback of RangeMap: it returns an error at its f.err-th call and
\* cont = false at its f.stop-th call (0: never)
RangerFuncs == [stop : 0..(MaxPairs + 1), err : 0..(MaxPairs + 1)]

\* cont, err := f(key, value) at the n-th call
Ranger(f, n, key) ==
    [cont |-> f.stop # n, err |-> IF f.err = n THEN ErrAt(key) ELSE Nil]

RECURSIVE RangeMapFrom(_, _, _, _, _)

RangeMapCalledThrough(t, node, f, i, calls, r) ==
    IF r.err # Nil
    THEN [err |-> r.err, calls |-> calls]
    ELSE RangeMapFrom(t, node, f, i + 2, calls)

\* the body of the loop of RangeMap after the call of f returned r
RangeMapCalled(t, node, f, i, calls, r) ==
    IF r.err # Nil
    THEN [err |-> r.err, calls |-> calls]
    ELSE IF ~r.cont
    THEN [err |-> Nil, calls |-> calls]
    ELSE RangeMapFrom(t, node, f, i + 2, calls)

\* the loop of RangeMap from index i (0-based), calls being the calls of f
\* made so far
RangeMapFrom(t, node, f, i, calls) ==
    IF i >= Len(t[node].Content)
    THEN [err |-> Nil, calls |-> calls]
    ELSE RangeMapCalled(t, node, f, i,
             Append(calls, <<t[node].Content[i + 1], t[node].Content[i + 2]>>),
             Ranger(f, Len(calls) + 1, t[node].Content[i + 1]))

\* RangeMap: node = Indirect(node), the two checks, the loop
RangeMap(t, node, f) ==
    IF t[Indirect(t, node)].Kind # MappingNode
    THEN [err |-> [kind |-> "expected node kind mapping", at |-> 0], calls |-> <<>>]
    ELSE IF Len(t[Indirect(t, node)].Content) % 2 # 0
    THEN [err |-> [kind |-> "unexpected node content length", at |-> 0],
          calls |-> <<>>]
    ELSE RangeMapFrom(t, Indirect(t, node), f, 0, <<>>)

\* an alias node of the node n
NewAlias(n, comment) == <<Node(AliasNode, "", "x", <<>>, n, "", comment, 0)>>

MergeKey(comment) == NewScalar("<<", "!!merge", comment)

\* mappings with a merge key whose value is a Mapping, alone, before and
\* after a direct pair
MergeMaps(comment) ==
    {NewMappingWith(before \o <<MergeKey(comment), NewMappingOf(k, "y", comment)>>
                       \o after, comment) :
        k \in KeyValues,
        before \in {<<>>, <<NewScalar("a", "!!str", comment), NewScalar("x", "!!str", comment)>>},
        after \in {<<>>, <<NewScalar("b", "!!str", comment), NewScalar("x", "!!str", comment)>>}}

\* the trees RangeMap is called on: parsed trees, also with a Mapping of
\* odd Content length, and mappings built pair by pair
RangeDocs ==
    {Full(t, "doc") : t \in TreesUpTo(MaxHeapNodes, KeyValues, TRUE)}
        \cup PairMaps("doc") \cup MergeMaps("doc")

\* a tree, a new key, a new value, an alias of a node of the tree and an
\* alias of that alias
RangeHeaps ==
    UNION {{d \o Shift(NewScalar("a", "!!str", "key"), Len(d))
              \o Shift(NewScalar("y", "!!str", "val"), Len(d) + 1)
              \o NewAlias(n, "alias") \o NewAlias(Len(d) + 3, "alias") :
               n \in {n \in DOMAIN d : n = 1 \/ d[n].Kind = MappingNode}}
           : d \in RangeDocs}

InitRange ==
    /\ tree \in RangeHeaps
    /\ res = None

\* err := RangeMap(node, f)
CallRangeMap ==
    /\ res = None
    /\ \E node \in DocNodes(tree) \cup Marked(tree, "alias"), f \in RangerFuncs :
        LET r == RangeMap(tree, node, f)
        IN /\ res' = [op |-> "RangeMap", a |-> node, f |-> f, calls |-> r.calls,
                      err |-> r.err, before |-> tree]
           /\ UNCHANGED tree

NextRange == CallRangeMap \/ CallAppendNode \/ CallAssignMapNode

SpecRange == InitRange /\ [][NextRange]_vars

\* ------------------------------------------------------------------------
\* Sequences of mutations. A Content is a Go slice: a window of a backing
\* array that other nodes may share. h.t is the tree, each Content being
\* what its window shows; h.arr[n] is the backing array of node n and
\* h.store[a] the array a up to its capacity.
\* ------------------------------------------------------------------------
MaxSteps == 2

RECURSIVE Ids(_)
Ids(n) == IF n = 0 THEN <<>> ELSE Append(Ids(n - 1), n)

RECURSIVE Contents(_, _)
Contents(t, n) ==
    IF n > Len(t) THEN <<>> ELSE <<t[n].Content \o <<>>>> \o Contents(t, n + 1)

\* every node with a backing array of its own that its Content fills
SliceHeap(t) == [t |-> t, arr |-> Ids(Len(t)), store |-> Contents(t, 1)]

RECURSIVE Pad(_)
Pad(n) == IF n <= 0 THEN <<>> ELSE Append(Pad(n - 1), NilNode)

RECURSIVE Windows(_, _, _, _)
\* the nodes from n on, those whose array is a showing its contents new
Windows(h, a, new, n) ==
    IF n > Len(h.t) THEN <<>>
    ELSE <<IF h.arr[n] = a
           THEN [h.t[n] EXCEPT !.Content = SubSeq(new, 1, Len(h.t[n].Content))]
           ELSE h.t[n]>> \o Windows(h, a, new, n + 1)

\* a write in place through node p: its array becomes new and its window
\* len long
Written(h, p, new, len) ==
    [t |-> [Windows(h, h.arr[p], new, 1) EXCEPT ![p].Content = SubSeq(new, 1, len)],
     arr |-> h.arr,
     store |-> [h.store EXCEPT ![h.arr[p]] = new]]

\* append beyond the capacity: node p gets a new array
Allocated(h, p, new, len) ==
    [t |-> [h.t EXCEPT ![p].Content = SubSeq(new, 1, len)],
     arr |-> [h.arr EXCEPT ![p] = Len(h.store) + 1],
     store |-> Append(h.store, new)]

\* append(s, more...) through node p, s being the first keep elements of
\* its window and cap the capacity of the array append allocates if it has
\* to
Appended(h, p, keep, more, cap) ==
    IF keep + Len(more) <= Len(h.store[h.arr[p]])
    THEN Written(h, p,
                 SubSeq(h.store[h.arr[p]], 1, keep) \o more
                     \o SubSeq(h.store[h.arr[p]], keep + Len(more) + 1,
                               Len(h.store[h.arr[p]])),
                 keep + Len(more))
    ELSE Allocated(h, p,
                   SubSeq(h.t[p].Content, 1, keep) \o more
                       \o Pad(cap - keep - Len(more)),
                   keep + Len(more))

\* the capacities append may give a new array of at least needed elements
GrowCaps(needed) == {needed, needed + 2}

\* destNode.Content = srcNode.Content: the same window of the same array
SliceAssignNode(h, destNode, srcNode) ==
    [t |-> AssignNode(h.t, destNode, srcNode),
     arr |-> [h.arr EXCEPT ![destNode] = h.arr[srcNode]],
     store |-> h.store]

RECURSIVE Repointed(_, _, _)
\* the arrays after AssignNode(node, valNode) for every node of calls
Repointed(arr, calls, valNode) ==
    IF calls = <<>> THEN arr
    ELSE Repointed([arr EXCEPT ![Head(calls)] = arr[valNode]], Tail(calls), valNode)

\* AssignMapNode on the unwrapped mapNode after WalkPath returned r
SliceAssignMapNodeWalked(h, mapNode, keyNode, valNode, cap, r) ==
    IF r.err # Nil \/ r.st.calls # <<>>
    THEN [err |-> r.err,
          h |-> [t |-> r.st.t, arr |-> Repointed(h.arr, r.st.calls, valNode),
                 store |-> h.store]]
    ELSE [err |-> Nil,
          h |-> Appended(h, mapNode, InsertAt(h.t, mapNode, keyNode),
                         <<keyNode, valNode>>
                             \o SubSeq(h.t[mapNode].Content,
                                       InsertAt(h.t, mapNode, keyNode) + 1,
                                       Len(h.t[mapNode].Content)),
                         cap)]

SliceAssignMapNode(h, mapNode, keyNode, valNode, cap) ==
    IF h.t[unwrapDocument(h.t, mapNode)].Kind # MappingNode
    THEN [err |-> InvalidType("AssignMapNode", h.t[unwrapDocument(h.t, mapNode)].Tag),
          h |-> h]
    ELSE SliceAssignMapNodeWalked(h, unwrapDocument(h.t, mapNode), keyNode, valNode, cap,
             WalkPath(h.t, unwrapDocument(h.t, mapNode), AssignFn(valNode),
                      <<NodeSeg(keyNode)>>, StartSt(h.t)))

SliceAppendNode(h, listNode, valNode, cap) ==
    IF h.t[listNode].Kind # SequenceNode
    THEN [err |-> InvalidType("AppendNode", h.t[listNode].Tag), h |-> h]
    ELSE [err |-> Nil,
          h |-> Appended(h, listNode, Len(h.t[listNode].Content), <<valNode>>, cap)]

SliceRemoveOneSlot(h, parent, ix) ==
    [ok |-> TRUE,
     h |-> Appended(h, parent, ix,
                    SubSeq(h.t[parent].Content, ix + 2, Len(h.t[parent].Content)), 0)]

\* Remove on the unwrapped parent, ix being GetIndex(parent, target):
\* append(parent.Content[:ix], parent.Content[ix+2:]...) for a Mapping,
\* append(parent.Content[:ix], parent.Content[ix+1:]...) otherwise
SliceRemoveAt(h, parent, ix) ==
    IF ix < 0
    THEN [ok |-> FALSE, h |-> h]
    ELSE [ok |-> TRUE,
          h |-> Appended(h, parent, ix,
                         SubSeq(h.t[parent].Content,
                                ix + 1 + (IF h.t[parent].Kind = MappingNode THEN 2 ELSE 1),
                                Len(h.t[parent].Content)),
                         0)]

SliceRemove(h, parent, target) ==
    SliceRemoveAt(h, unwrapDocument(h.t, parent),
                  GetIndex(h.t, unwrapDocument(h.t, parent), target))

\* sort.Sort(SortableNodeMap(mapNode)): the pairs of the window are swapped
\* in place; on a node that is not a Mapping an empty slice is sorted
SliceSortUnwrapped(h, mapNode) ==
    IF h.t[mapNode].Kind # MappingNode
    THEN h
    ELSE Appended(h, mapNode, 0, SortedContent(h.t, h.t[mapNode].Content), 0)

SliceSort(h, mapNode) == SliceSortUnwrapped(h, unwrapDocument(h.t, mapNode))

RECURSIVE Closure(_, _, _)
\* the nodes reached from the nodes of S through at most k Content steps
Closure(t, S, k) ==
    IF k = 0 THEN S
    ELSE Closure(t, S \cup UNION {Children(t, n) : n \in S}, k - 1)

\* no node is reached from itself, as in every tree a caller builds
Acyclic(t) == \A n \in DOMAIN t : n \notin Closure(t, Children(t, n), Len(t))

\* the trees the sequences start from: {a: x, b: y}, {b: x, a: y},
\* {a: {b: y}}, {b: [y]} and a Document holding {a: x, b: y}
OwnDocs ==
    {NewMappingWith(<<NewScalar("a", "!!str", "doc"), NewScalar("x", "!!str", "doc"),
                      NewScalar("b", "!!str", "doc"), NewScalar("y", "!!str", "doc")>>,
                    "doc"),
     NewMappingWith(<<NewScalar("b", "!!str", "doc"), NewScalar("x", "!!str", "doc"),
                      NewScalar("a", "!!str", "doc"), NewScalar("y", "!!str", "doc")>>,
                    "doc"),
     NewMappingWith(<<NewScalar("a", "!!str", "doc"), NewMappingOf("b", "y", "doc")>>,
                    "doc"),
     NewMappingWith(<<NewScalar("b", "!!str", "doc"), NewSequenceOf("y", "doc")>>,
                    "doc"),
     <<Node(DocumentNode, "", "", <<2>>, NilNode, "", "doc", 0)>>
         \o Shift(NewMappingWith(<<NewScalar("a", "!!str", "doc"),
                                    NewScalar("x", "!!str", "doc"),
                                    NewScalar("b", "!!str", "doc"),
                                    NewScalar("y", "!!str", "doc")>>, "doc"), 1)}

\* a tree, a new key node "a" and a new value {b: y} or [y] beside it
OwnHeaps ==
    {doc \o Shift(NewScalar("a", "!!str", "key"), Len(doc)) \o Shift(val, Len(doc) + 1) :
        doc \in OwnDocs, val \in {NewMappingOf("b", "y", "val"),
                                   NewSequenceOf("y", "val")}}

\* the key of every Mapping of t with the value that follows it
PairsIn(t) ==
    UNION {{<<t[m].Content[i], t[m].Content[i + 1]>> :
               i \in {j \in 1..(Len(t[m].Content) - 1) : j % 2 = 1}} :
           m \in {n \in DOMAIN t : t[n].Kind = MappingNode}}

InitOwn ==
    /\ tree \in OwnHeaps
    /\ res = [op |-> "Own", steps |-> 0, ops |-> {}, paired |-> PairsIn(tree),
              arr |-> SliceHeap(tree).arr, store |-> SliceHeap(tree).store,
              through |-> {}, before |-> tree, start |-> tree]

\* the tree with the backing arrays of its Contents
Own == [t |-> tree, arr |-> res.arr, store |-> res.store]

\* one more call of the sequence: name is the operation, h the result,
\* through the nodes whose fields the call assigns and pairs the key and
\* value the call was given
Stepped(name, h, through, pairs) ==
    /\ res.op = "Own"
    /\ res.steps < MaxSteps
    /\ \E to \in {h} :
          /\ Acyclic(to.t)
          /\ tree' = to.t
          /\ res' = [op |-> "Own", steps |-> res.steps + 1, ops |-> res.ops \cup {name},
                     paired |-> res.paired \cup pairs, arr |-> to.arr,
                     store |-> to.store, through |-> through, before |-> tree,
                     start |-> res.start]

\* AssignNode(destNode, srcNode) from a node that has Content or from the
\* new key
StepAssignNode ==
    \E destNode \in DOMAIN tree,
       srcNode \in {n \in DOMAIN tree : tree[n].Content # <<>> \/ n = NewKey(tree)} :
        Stepped("AssignNode", SliceAssignNode(Own, destNode, srcNode), {destNode}, {})

\* the nodes AssignMapNode assigns: the values found, else the Mapping
AssignedAfter(mapNode, r) ==
    IF r.st.calls # <<>>
    THEN {r.st.calls[i] : i \in DOMAIN r.st.calls}
    ELSE {mapNode}

AssignedBy(t, mapNode, keyNode, valNode) ==
    IF t[mapNode].Kind # MappingNode THEN {}
    ELSE AssignedAfter(mapNode,
             WalkPath(t, mapNode, AssignFn(valNode), <<NodeSeg(keyNode)>>, StartSt(t)))

\* the Mapping is not part of the new key or value, and no node below the
\* new value is Equal to the key: the walk of AssignMapNode, which assigns
\* the value to every node Equal to the key and goes on below it, ends
Apart(t, mapNode, keyNode, valNode) ==
    /\ mapNode \notin Closure(t, {keyNode, valNode}, Len(t))
    /\ \A n \in Closure(t, Children(t, valNode), Len(t)) : ~Equal(t, keyNode, n)

StepAssignMapNode ==
    \E mapNode \in {m \in DOMAIN tree :
                        Apart(tree, unwrapDocument(tree, m), NewKey(tree), NewValue(tree))} :
        \E cap \in GrowCaps(Len(tree[unwrapDocument(tree, mapNode)].Content) + 2) :
            Stepped("AssignMapNode",
                    SliceAssignMapNode(Own, mapNode, NewKey(tree), NewValue(tree), cap).h,
                    AssignedBy(tree, unwrapDocument(tree, mapNode),
                               NewKey(tree), NewValue(tree)),
                    {<<NewKey(tree), NewValue(tree)>>})

StepAppendNode ==
    \E listNode \in DOMAIN tree :
        \E cap \in GrowCaps(Len(tree[listNode].Content) + 1) :
            Stepped("AppendNode",
                    SliceAppendNode(Own, listNode, NewValue(tree), cap).h,
                    {listNode}, {})

StepRemove ==
    \E parent \in DOMAIN tree, target \in DOMAIN tree :
        Stepped(IF tree[unwrapDocument(tree, parent)].Kind = MappingNode
                THEN "RemoveFromMapping" ELSE "Remove",
                SliceRemove(Own, parent, target).h,
                {unwrapDocument(tree, parent)}, {})

StepSort ==
    \E mapNode \in DOMAIN tree :
        Stepped("Sort", SliceSort(Own, mapNode), {unwrapDocument(tree, mapNode)}, {})

NextOwn == StepAssignNode \/ StepAssignMapNode \/ StepAppendNode \/ StepRemove \/ StepSort

SpecOwn == InitOwn /\ [][NextOwn]_vars


\* ------------------------------------------------------------------------
\* C21: CopyNode preserves sharing. Following the same Content slots and
\* Alias fields from src and from its copy pairs every source node with
\* copy nodes; each source node is paired with exactly one copy node,
\* whatever the references that lead to it and whichever is reached first.
\* ------------------------------------------------------------------------
RECURSIVE Corresponding(_, _, _)
\* the pairs <<source node, copy node>> met from the pairs in todo
Corresponding(t, todo, seen) ==
    IF todo \subseteq seen
    THEN seen
    ELSE LET p == CHOOSE q \in todo \ seen : TRUE
             byContent == {<<t[p[1]].Content[k], t[p[2]].Content[k]>> :
                              k \in DOMAIN t[p[1]].Content \cap DOMAIN t[p[2]].Content}
             byAlias == IF t[p[1]].Alias = NilNode \/ t[p[2]].Alias = NilNode
                        THEN {}
                        ELSE {<<t[p[1]].Alias, t[p[2]].Alias>>}
         IN Corresponding(t, (todo \cup byContent \cup byAlias) \ {p}, seen \cup {p})

CopyPairs == Corresponding(tree, {<<res.src, res.copy>>}, {})

ThmC21_CopyPreservesSharing ==
    res.op = "CopyNode" =>
        /\ \A p \in CopyPairs, q \in CopyPairs : p[1] = q[1] => p[2] = q[2]
        /\ \A p \in CopyPairs :
              /\ Len(tree[p[2]].Content) = Len(tree[p[1]].Content)
              /\ (tree[p[2]].Alias = NilNode) = (tree[p[1]].Alias = NilNode)

\* two aliases of one node that is also an element of the copied Sequence,
\* the first alias coming before the node
WitC21_TwoAliasesBeforeTarget ==
    /\ res.op = "CopyNode"
    /\ \E a \in Reach(tree, res.src), b \in Reach(tree, res.src) :
        /\ a < b
        /\ tree[a].Alias # NilNode
        /\ tree[a].Alias = tree[b].Alias
        /\ a < tree[a].Alias
        /\ \E k \in DOMAIN tree[res.src].Content :
              tree[res.src].Content[k] = tree[a].Alias
        /\ \E k \in DOMAIN tree[res.src].Content : tree[res.src].Content[k] = a

\* ------------------------------------------------------------------------
\* C22: Equal(a, b) on non-nil nodes is true exactly when, after following
\* alias chains, a and b have the same Kind, Tag and Value and their
\* children are recursively Equal, pairwise in order for non-mapping nodes
\* and up to a reordering of the key/value pairs for Mapping nodes
\* (non-scalar and duplicate keys included); comments, anchors, style and
\* positions do not count.
\* ------------------------------------------------------------------------
\* the bijections of 1..n
Perms(n) == {f \in [1..n -> 1..n] : \A i \in 1..n, j \in 1..n : f[i] = f[j] => i = j}

RECURSIVE SameData(_, _, _)
SameDataIndirect(t, a, b) ==
    /\ t[a].Kind = t[b].Kind
    /\ t[a].Tag = t[b].Tag
    /\ t[a].Value = t[b].Value
    /\ Len(t[a].Content) = Len(t[b].Content)
    /\ IF t[a].Kind = MappingNode
       THEN \E f \in Perms(Len(t[a].Content) \div 2) :
               \A k \in 1..(Len(t[a].Content) \div 2) :
                   /\ SameData(t, t[a].Content[2 * k - 1], t[b].Content[2 * f[k] - 1])
                   /\ SameData(t, t[a].Content[2 * k], t[b].Content[2 * f[k]])
       ELSE \A i \in DOMAIN t[a].Content :
               SameData(t, t[a].Content[i], t[b].Content[i])

SameData(t, a, b) == SameDataIndirect(t, Indirect(t, a), Indirect(t, b))

ClaimC22_EqualUpToPairOrder ==
    res.op = "Equal" => (res.ok <=> SameData(tree, res.a, res.b))

\* ------------------------------------------------------------------------
\* C23: on a Mapping with even Content length, possibly reached through a
\* chain of aliases, RangeMap calls the callback on the pairs
\* (Content[2i], Content[2i+1]) in increasing i; it stops at the first call
\* that signals stop and returns nil, and at the first call that returns an
\* error it makes no further call and returns that error unchanged.
\* ------------------------------------------------------------------------
\* the Mapping RangeMap was called on
Ranged == Indirect(res.before, res.a)

RangedPairs == Len(res.before[Ranged].Content) \div 2

\* the calls at which the callback of res ends the iteration
Ending == {n \in 1..RangedPairs : res.f.stop = n \/ res.f.err = n}

\* the number of calls RangeMap is to make
LastCall ==
    IF Ending = {} THEN RangedPairs
    ELSE CHOOSE n \in Ending : \A m \in Ending : n <= m

IsRangeOfMapping ==
    /\ res.op = "RangeMap"
    /\ res.before[Ranged].Kind = MappingNode
    /\ Len(res.before[Ranged].Content) % 2 = 0

ThmC23_RangeMapOrderStopError ==
    IsRangeOfMapping =>
        /\ res.calls = [n \in 1..LastCall |->
                           <<res.before[Ranged].Content[2 * n - 1],
                             res.before[Ranged].Content[2 * n]>>]
        /\ res.err = IF LastCall > 0 /\ res.f.err = LastCall
                     THEN ErrAt(res.before[Ranged].Content[2 * LastCall - 1])
                     ELSE Nil

\* a Mapping of two pairs reached through two aliases, the callback
\* signalling stop at its first call; and one whose callback fails at the
\* second call
WitC23_StopThroughAliases ==
    /\ IsRangeOfMapping
    /\ res.before[res.a].Kind = AliasNode
    /\ res.before[res.before[res.a].Alias].Kind = AliasNode
    /\ RangedPairs = 2
    /\ res.f.stop = 1 /\ res.f.err = 2
    /\ Len(res.calls) = 1 /\ res.err = Nil

\* ------------------------------------------------------------------------
\* C24: RangeMap never passes a merge-key pair (key tagged as the merge
\* marker) to the callback; at the position of the merge key it passes the
\* pairs of the referenced mapping (or of each mapping of a referenced
\* sequence, in order), and in the default mode it omits any merge-sourced
\* key that also appears as a direct key of the current mapping.
\* ------------------------------------------------------------------------
IsMergeKey(t, key) == t[key].Tag = "!!merge"

\* the Values of the keys of m that are not merge keys
DirectKeys(t, m) ==
    {t[t[m].Content[2 * k - 1]].Value :
        k \in {k \in 1..(Len(t[m].Content) \div 2) :
                  ~IsMergeKey(t, t[m].Content[2 * k - 1])}}

RECURSIVE SurfacedFrom(_, _, _)
RECURSIVE MergeSourced(_, _, _)
\* the pairs the value v of a merge key stands for, from the k-th element
\* when v is a Sequence
MergeSourced(t, v, k) ==
    IF t[v].Kind = MappingNode THEN SurfacedFrom(t, v, 1)
    ELSE IF t[v].Kind = SequenceNode /\ k <= Len(t[v].Content)
    THEN SurfacedFrom(t, Indirect(t, t[v].Content[k]), 1) \o MergeSourced(t, v, k + 1)
    ELSE <<>>

\* the pairs the callback is to see for the Mapping m, from its k-th pair
SurfacedFrom(t, m, k) ==
    IF t[m].Kind # MappingNode \/ 2 * k > Len(t[m].Content) THEN <<>>
    ELSE IF IsMergeKey(t, t[m].Content[2 * k - 1])
    THEN LET Kept(p) == t[p[1]].Value \notin DirectKeys(t, m)
         IN SelectSeq(MergeSourced(t, Indirect(t, t[m].Content[2 * k]), 1), Kept)
                \o SurfacedFrom(t, m, k + 1)
    ELSE <<<<t[m].Content[2 * k - 1], t[m].Content[2 * k]>>>>
             \o SurfacedFrom(t, m, k + 1)

ClaimC24_MergeKeysResolved ==
    (IsRangeOfMapping /\ res.f.stop = 0 /\ res.f.err = 0) =>
        /\ \A n \in DOMAIN res.calls : ~IsMergeKey(res.before, res.calls[n][1])
        /\ res.calls = SurfacedFrom(res.before, Ranged, 1)

\* ------------------------------------------------------------------------
\* C25: an operation called on a target of the wrong shape fails before
\* having any effect. AppendNode on a node that is not a Sequence and
\* AssignMapNode on a node that (a Document being unwrapped) is not a
\* Mapping return an error and leave every node as it was; RangeMap on a
\* node that is not a Mapping after alias indirection, or on a Mapping of
\* odd Content length, returns an error without calling the callback.
\* ------------------------------------------------------------------------
ThmC25_WrongShapeFailsFirst ==
    /\ (res.op = "AppendNode" /\ res.before[res.a].Kind # SequenceNode) =>
           (res.err # Nil /\ tree = res.before)
    /\ (res.op = "AssignMapNode"
          /\ res.before[unwrapDocument(res.before, res.a)].Kind # MappingNode) =>
           (res.err # Nil /\ tree = res.before)
    /\ (res.op = "RangeMap" /\ ~IsRangeOfMapping) =>
           (res.err # Nil /\ res.calls = <<>> /\ tree = res.before)

\* AppendNode on a Document that wraps a Sequence
WitC25_AppendToDocument ==
    /\ res.op = "AppendNode"
    /\ res.before[res.a].Kind = DocumentNode
    /\ Len(res.before[res.a].Content) = 1
    /\ res.before[res.before[res.a].Content[1]].Kind = SequenceNode
    /\ res.err # Nil
    /\ tree = res.before

\* ------------------------------------------------------------------------
\* C26: no traversal ends in a runtime panic: for every input tree, a root
\* that is a single Scalar and an empty Document included, Walk with
\* ScalarValuesWalker, KeyStringWalker or IndexWalker returns normally, with
\* nil or an error value.
\* ------------------------------------------------------------------------
ClaimC26_NoPanic == res.op = "Walk" => res.err # Panic

\* ------------------------------------------------------------------------
\* C27: after a visit returns a non-nil error, Walk makes no further visit
\* call: no later sibling, no descendant and no pending deferred
\* continuation is visited, whether the error occurs at the root, in the
\* depth-first pass or inside a deferred continuation.
\* ------------------------------------------------------------------------
ThmC27_ErrorStopsVisits ==
    IsWalk =>
      \A k \in DOMAIN res.visits :
          res.visits[k].err # Nil => k = Len(res.visits)

\* an error inside a deferred continuation, at a node that has a later
\* sibling, while another continuation whose node has children is pending
WitC27_ErrorInContinuation ==
    /\ IsWalk
    /\ \E k, i, j \in DOMAIN res.visits :
         /\ res.visits[k].err # Nil
         /\ i < k /\ j < k /\ i # j
         /\ res.visits[i].ws = WalkBreadthFirst
         /\ res.visits[k].parent = res.visits[i].cur
         /\ res.visits[k].pos + 1 < Len(tree[res.visits[k].parent].Content)
         /\ res.visits[j].ws = WalkBreadthFirst
         /\ Children(tree, res.visits[j].cur) # {}
         /\ Children(tree, res.visits[j].cur) \cap VisitedSet(res.visits) = {}

\* ------------------------------------------------------------------------
\* C28: Walk terminates on every finite tree for every combination of
\* statuses the visit function returns: each node is passed to visit at
\* most once, each deferred continuation is run at most once, and the queue
\* of continuations, which grows while it is processed, is exhausted: a
\* walk that no Exit or error ends has run one continuation for every visit
\* below the root that returned BreadthFirst.
\* ------------------------------------------------------------------------
ThmC28_WalkTerminates ==
    IsWalk =>
        /\ \A i, j \in DOMAIN res.visits :
              res.visits[i].cur = res.visits[j].cur => i = j
        /\ \A i, j \in DOMAIN res.runs : res.runs[i] = res.runs[j] => i = j
        /\ Len(res.visits) <= Len(tree)
        /\ NoExitOrErr([err |-> res.err, st |-> res]) =>
              Len(res.runs) =
                  Cardinality({k \in DOMAIN res.visits :
                                  k > 1 /\ res.visits[k].ws = WalkBreadthFirst})

\* a continuation that queued another one, which was run in its turn, in a
\* walk that also met DepthFirst and Prune
WitC28_QueueGrowsWhileProcessed ==
    /\ IsWalk
    /\ NoExitOrErr([err |-> res.err, st |-> res])
    /\ \E j, k \in DOMAIN res.visits :
         /\ 1 < j /\ j < k
         /\ res.visits[j].ws = WalkBreadthFirst
         /\ res.visits[k].ws = WalkBreadthFirst
         /\ res.visits[k].parent = res.visits[j].cur
         /\ \E n \in DOMAIN res.runs : res.runs[n] = res.visits[k].cur
    /\ \E k \in DOMAIN res.visits : res.visits[k].ws = WalkPrune
    /\ \E k \in DOMAIN res.visits : res.visits[k].ws = WalkDepthFirst

\* ------------------------------------------------------------------------
\* C29: starting from a tree in which every Mapping has even Content
\* length, after any sequence of AssignMapNode, Remove with a Mapping
\* parent and sort.Sort(SortableNodeMap(m)) calls every Mapping has even
\* Content length, and every key is immediately followed by the value it
\* was paired with, in the tree at the start or by the AssignMapNode call
\* that inserted it
\* ------------------------------------------------------------------------
WellFormedOps == {"AssignMapNode", "RemoveFromMapping", "Sort"}

ThmC29_MappingsStayPaired ==
    (res.op = "Own" /\ res.ops \subseteq WellFormedOps) =>
        \A m \in DOMAIN tree :
            tree[m].Kind = MappingNode =>
                /\ Len(tree[m].Content) % 2 = 0
                /\ \A i \in 1..Len(tree[m].Content) :
                       i % 2 = 1 =>
                           <<tree[m].Content[i], tree[m].Content[i + 1]>> \in res.paired

\* {b: x, a: y} after AssignMapNode of the key a with the value {b: y} and
\* a sort: the pairs have changed places, and the node the call assigned
\* the value to shares the Content of the value
WitC29_AssignedThenSorted ==
    /\ res.op = "Own"
    /\ res.ops = {"AssignMapNode", "Sort"}
    /\ res.through = {1}
    /\ tree[1].Kind = MappingNode
    /\ tree[1].Content # res.before[1].Content
    /\ \E n \in DOMAIN tree :
          /\ n # NewValue(tree)
          /\ res.arr[n] = res.arr[NewValue(tree)]
          /\ tree[n].Kind = MappingNode
          /\ tree[n].Content # <<>>

\* ------------------------------------------------------------------------
\* C30: after any sequence of AssignNode, AssignMapNode, AppendNode and
\* Remove calls on a tree and separately built nodes, no node is a Content
\* child of two distinct nodes, and the last call has changed the Content
\* of no node other than the ones it assigns to
\* ------------------------------------------------------------------------
OwnershipOps == {"AssignNode", "AssignMapNode", "AppendNode", "Remove", "RemoveFromMapping"}

ClaimC30_ExclusiveOwnership ==
    (res.op = "Own" /\ res.ops \subseteq OwnershipOps) =>
        /\ \A p \in DOMAIN tree, q \in DOMAIN tree :
               p # q => Children(tree, p) \cap Children(tree, q) = {}
        /\ \A n \in DOMAIN tree \ res.through :
               tree[n].Content = res.before[n].Content

====
